---- MODULE Spec2Model ----
\* Model of the synchronisation core of the Mode-7 BLE racer: the packet codec,
\* the input ring buffers with prediction, and the frame/latency tracker of
\* protocol.c, for two devices joined by a link.
EXTENDS Integers, Sequences, FiniteSets, TLC

\* ---------------------------------------------------------------------------
\* Program constants
\* ---------------------------------------------------------------------------
PROTOCOL_INPUT_BUFFER_SIZE == 64
PROTOCOL_MAX_LATENCY_SAMPLES == 100
CheckpointCount == 4

\* ---------------------------------------------------------------------------
\* Bounds of the model
\* ---------------------------------------------------------------------------
\* highest value of current_frame the frame counter is advanced to
MaxFrame == 35
\* number of store / unpack / pack calls in one run
MaxOps == 2
\* calls other than protocol_advance_frame are made while current_frame is
\* below EarlyFrames, or within LateFrames of MaxFrame; in between the device
\* only advances its frame counter
EarlyFrames == 2
LateFrames == 4
\* highest value of current_frame in the two-device specification
MaxPeerFrame == 1
\* required laps of the race world
TotalLaps == 2
\* number of calls in one run of the race specification
MaxRaceOps == 3
\* physics_update is called while position, velocity and acceleration of the
\* cars are within ArenaLimit units on both axes
ArenaLimit == 400
MaxLoopIterations == 2

U8 == 256
U16 == 65536

Devices == {"A", "B"}
Peer(d) == IF d = "A" THEN "B" ELSE "A"

\* ---------------------------------------------------------------------------
\* utils.c: crc16
\* ---------------------------------------------------------------------------
RECURSIVE BitXor(_, _, _)
BitXor(a, b, n) ==
    IF n = 0 THEN 0
    ELSE (((a % 2) + (b % 2)) % 2) + (2 * BitXor(a \div 2, b \div 2, n - 1))

\* c ^ (1 << k)
ToggleBit(c, k) == IF ((c \div (2 ^ k)) % 2) = 1 THEN c - (2 ^ k) ELSE c + (2 ^ k)

\* one pass of the inner loop: (crc & 1) ? (crc >> 1) ^ 0xA001 : crc >> 1
\* (0xA001 has bits 15, 13 and 0 set)
crc16_shift(crc) ==
    IF (crc % 2) = 1
    THEN ToggleBit(ToggleBit(ToggleBit(crc \div 2, 15), 13), 0)
    ELSE crc \div 2

RECURSIVE crc16_bits(_, _)
crc16_bits(crc, j) ==
    IF j = 0 THEN crc
    ELSE LET next == crc16_shift(crc)
         IN  IF next >= 0 THEN crc16_bits(next, j - 1) ELSE 0

\* crc ^= data[i], then the eight shifts
crc16_byte(crc, byte) ==
    crc16_bits((crc \div U8) * U8 + BitXor(crc % U8, byte, 8), 8)

\* the outer loop, from byte i on (next >= 0 always holds: the test makes the
\* value be computed before the next round)
RECURSIVE crc16_from(_, _, _)
crc16_from(crc, data, i) ==
    IF i > Len(data) THEN crc
    ELSE LET next == crc16_byte(crc, data[i])
         IN  IF next >= 0 THEN crc16_from(next, data, i + 1) ELSE 0

crc16(data) == crc16_from(65535, data, 1)

\* ---------------------------------------------------------------------------
\* ble.h: the packed wire structs, as the bytes crc16 reads
\* ---------------------------------------------------------------------------
ToU16(v) == v % U16
ToU8(v) == v % U8
\* the value of an int8_t holding the low byte of v
ToI8(v) == IF (v % U8) >= 128 THEN (v % U8) - U8 ELSE v % U8

\* little-endian bytes; \div rounds down, so a negative int32_t yields its
\* two's complement bytes
Bytes1(v) == <<v % U8>>
Bytes2(v) == <<v % U8, (v \div U8) % U8>>
Bytes4(v) ==
    <<v % U8, (v \div U8) % U8, (v \div U16) % U8, (v \div (U16 * U8)) % U8>>

\* input_packet_t without its checksum: 11 bytes
InputPacketBytes(p) ==
    Bytes1(p.player_id) \o Bytes1(p.throttle) \o Bytes1(p.brake)
      \o Bytes1(p.steering) \o Bytes1(p.buttons)
      \o Bytes4(p.frame_number) \o Bytes2(p.timestamp)

\* game_state_packet_t without its checksum: 29 bytes
GameStatePacketBytes(p) ==
    Bytes1(p.game_state) \o Bytes1(p.player_id) \o Bytes4(p.frame_number)
      \o Bytes4(p.car_position_x) \o Bytes4(p.car_position_y)
      \o Bytes4(p.car_velocity_x) \o Bytes4(p.car_velocity_y)
      \o Bytes4(p.car_heading)
      \o Bytes1(p.checkpoint_index) \o Bytes1(p.lap_count)
      \o Bytes1(p.race_finished) \o Bytes2(p.timestamp)

ZeroInputPacket ==
    [player_id |-> 0, throttle |-> 0, brake |-> 0, steering |-> 0,
     buttons |-> 0, frame_number |-> 0, timestamp |-> 0, checksum |-> 0]

ZeroGameStatePacket ==
    [game_state |-> 0, player_id |-> 0, frame_number |-> 0,
     car_position_x |-> 0, car_position_y |-> 0,
     car_velocity_x |-> 0, car_velocity_y |-> 0, car_heading |-> 0,
     checkpoint_index |-> 0, lap_count |-> 0, race_finished |-> 0,
     timestamp |-> 0, checksum |-> 0]

\* the structs as the link carries them: all bytes, the checksum included
InputPacketWire(p) == InputPacketBytes(p) \o Bytes2(p.checksum)
GameStatePacketWire(p) == GameStatePacketBytes(p) \o Bytes2(p.checksum)

\* the value of the field that starts at byte i (little-endian); a uint32_t
\* is read as a natural number, which the frame numbers of the model allow
U16OfBytes(b, i) == b[i] + (b[i + 1] * U8)
U32OfBytes(b, i) == U16OfBytes(b, i) + (U16OfBytes(b, i + 2) * U16)
I32OfBytes(b, i) ==
    U16OfBytes(b, i) + (U16 * (IF b[i + 3] >= 128
                               THEN U16OfBytes(b, i + 2) - U16
                               ELSE U16OfBytes(b, i + 2)))

\* the struct a receiver reads from 13 bytes
InputPacketOfWire(b) ==
    [player_id |-> b[1], throttle |-> ToI8(b[2]), brake |-> ToI8(b[3]),
     steering |-> ToI8(b[4]), buttons |-> b[5],
     frame_number |-> U32OfBytes(b, 6), timestamp |-> U16OfBytes(b, 10),
     checksum |-> U16OfBytes(b, 12)]

\* the struct a receiver reads from 31 bytes
GameStatePacketOfWire(b) ==
    [game_state |-> b[1], player_id |-> b[2], frame_number |-> U32OfBytes(b, 3),
     car_position_x |-> I32OfBytes(b, 7), car_position_y |-> I32OfBytes(b, 11),
     car_velocity_x |-> I32OfBytes(b, 15), car_velocity_y |-> I32OfBytes(b, 19),
     car_heading |-> I32OfBytes(b, 23),
     checkpoint_index |-> b[27], lap_count |-> b[28], race_finished |-> b[29],
     timestamp |-> U16OfBytes(b, 30), checksum |-> U16OfBytes(b, 32)]

\* ---------------------------------------------------------------------------
\* uint32_t values that can pass 2^31 (latency, avg_latency): <<high, low>>
\* 16-bit halves, with the arithmetic of protocol_unpack_game_state modulo 2^32
\* ---------------------------------------------------------------------------
U32Of(n) == <<(n \div U16) % U16, n % U16>>
U32Zero == <<0, 0>>
\* a - b
U32Sub(a, b) ==
    LET lo == a[2] - b[2]
        borrow == IF lo < 0 THEN 1 ELSE 0
    IN  <<(a[1] - b[1] - borrow) % U16, lo % U16>>
\* a + b
U32Add(a, b) ==
    LET lo == a[2] + b[2]
    IN  <<(a[1] + b[1] + (lo \div U16)) % U16, lo % U16>>
\* a * m for a small m
U32Mul(a, m) ==
    LET lo == a[2] * m
    IN  <<((a[1] * m) + (lo \div U16)) % U16, lo % U16>>
\* a / n for a small n > 0
U32Div(a, n) ==
    LET rest == ((a[1] % n) * U16) + a[2]
    IN  <<a[1] \div n, rest \div n>>

\* ---------------------------------------------------------------------------
\* game_types.h / physics.h: the values the codec reads and writes
\* ---------------------------------------------------------------------------
\* input_state_t: throttle, brake and steering are floats, held here in
\* hundredths (steering 37 is 0.37f); buttons is the set of pressed buttons
ButtonNames == {"A", "B", "START", "SELECT"}

\* ---------------------------------------------------------------------------
\* math.h: 16.16 fixed-point arithmetic on int32_t (fixed16_t). Products and
\* shifted dividends are 64 bits wide in the code; here they are computed in
\* 16-bit limbs, and the cast back to int32_t keeps the low 32 bits.
\* ---------------------------------------------------------------------------
FIXED16_ONE == 65536
INT_TO_FIXED16(i) == i * FIXED16_ONE

I32Max == 2147483647
I32Min == -I32Max - 1

\* the two 16-bit halves of the two's-complement form of x
HiLimb(x) == (x \div U16) % U16
LoLimb(x) == x % U16

\* the int32_t whose two's-complement form has the halves hi and lo
I32OfLimbs(hi, lo) ==
    IF hi >= 32768 THEN ((hi - U16) * U16) + lo ELSE (hi * U16) + lo

\* a + b in int32_t where the sum leaves the type: the low 32 bits
AddI32(a, b) ==
    LET lo == LoLimb(a) + LoLimb(b)
        hi == HiLimb(a) + HiLimb(b) + (lo \div U16)
    IN  I32OfLimbs(hi % U16, lo % U16)

\* a + b stays inside int32_t
SumInRange(a, b) ==
    IF a >= 0 /\ b >= 0 THEN a <= I32Max - b
    ELSE IF a < 0 /\ b < 0 THEN a >= I32Min - b
    ELSE TRUE

\* (fixed16_t)(((int64_t)a * b) >> 16)
fixed_mul(a, b) ==
    LET ah == a \div U16
        al == a % U16
        bh == b \div U16
        bl == b % U16
        low == (((al \div U8) * bl) + (((al % U8) * bl) \div U8)) \div U8
        t1 == ah * bl
        t2 == al * bh
        lo == LoLimb(t1) + LoLimb(t2) + low
        hi == HiLimb(t1) + HiLimb(t2) + ((ah * bh) % U16) + (lo \div U16)
    IN  I32OfLimbs(hi % U16, lo % U16)

\* the next n binary digits of r / d behind the digits q, for 0 <= r < d;
\* several digits at a time where r stays small enough for that
RECURSIVE LongDivide(_, _, _, _)
LongDivide(r, q, d, n) ==
    IF n = 0 THEN q
    ELSE IF d <= 32768
    THEN LongDivide((r * 65536) % d, (q * 65536) + ((r * 65536) \div d),
                    d, n - 16)
    ELSE IF d <= 134217728 /\ n % 4 = 0
    THEN LET rest == (r * 16) % d
             digits == (q * 16) + ((r * 16) \div d)
         IN  IF rest >= 0 /\ digits >= 0
             THEN LongDivide(rest, digits, d, n - 4) ELSE 0
    ELSE LET bit == IF r >= d - r THEN 1 ELSE 0
             rest == IF bit = 1 THEN r - (d - r) ELSE r + r
             digits == (2 * q) + bit
         IN  IF rest >= 0 /\ digits >= 0
             THEN LongDivide(rest, digits, d, n - 1) ELSE 0

\* (fixed16_t)(((int64_t)a << 16) / b) for b # 0: the quotient is truncated
\* toward zero, the cast keeps its low 32 bits
fixed_div(a, b) ==
    LET na == IF a < 0 THEN -a ELSE a
        nb == IF b < 0 THEN -b ELSE b
        magnitude == I32OfLimbs((na \div nb) % U16,
                                LongDivide(na % nb, 0, nb, 16))
    IN  IF (a < 0) = (b < 0) \/ magnitude = I32Min THEN magnitude
        ELSE -magnitude

\* the loop of fixed_sqrt: n more Newton steps from result (a step that
\* returns result again is followed by steps that do the same)
RECURSIVE fixed_sqrt_steps(_, _, _)
fixed_sqrt_steps(x, result, n) ==
    IF n = 0 \/ result = 0 THEN result
    ELSE LET next == AddI32(result, fixed_div(x, result)) \div 2
         IN  IF next = result THEN result
             ELSE fixed_sqrt_steps(x, next, n - 1)

\* fixed_sqrt
fixed_sqrt(x) == IF x <= 0 THEN 0 ELSE fixed_sqrt_steps(x, x, 16)

\* vec2_t operations
vec2_add(a, b) == [x |-> a.x + b.x, y |-> a.y + b.y]
vec2_sub(a, b) == [x |-> a.x - b.x, y |-> a.y - b.y]
vec2_scale(v, s) == [x |-> fixed_mul(v.x, s), y |-> fixed_mul(v.y, s)]
vec2_dot(a, b) == AddI32(fixed_mul(a.x, b.x), fixed_mul(a.y, b.y))
vec2_length(v) == fixed_sqrt(vec2_dot(v, v))

\* the sum inside vec2_dot stays inside int32_t, and so do the sums of
\* fixed_sqrt when the result is passed to it
DotInRange(a, b) ==
    /\ SumInRange(fixed_mul(a.x, b.x), fixed_mul(a.y, b.y))
    /\ fixed_mul(a.x, b.x) + fixed_mul(a.y, b.y) <= I32Max - FIXED16_ONE

\* the fields of car_physics_t the codec copies (raw 16.16 values)
ZeroCar ==
    [position |-> [x |-> 0, y |-> 0], velocity |-> [x |-> 0, y |-> 0],
     heading |-> 0]

\* physics_world_t as game_loop_init leaves it: checkpoint_count checkpoints,
\* none passed (lap_count and total_laps are the fields protocol.c reads)
InitWorld ==
    [checkpoint_count |-> CheckpointCount,
     checkpoints |-> [i \in 0..(CheckpointCount - 1) |->
                        [passed |-> FALSE, lap_count |-> 0]],
     total_laps |-> TotalLaps]

\* ---------------------------------------------------------------------------
\* protocol.c: state
\* ---------------------------------------------------------------------------
\* the static initialiser of protocol_state
StaticProtocolState ==
    [is_host |-> FALSE, is_connected |-> FALSE,
     local_player_id |-> 0, remote_player_id |-> 1,
     current_frame |-> 0, last_received_frame |-> 0,
     latency_samples |-> 0, avg_latency |-> U32Zero, jitter |-> 0]

\* memset(&protocol_state, 0, ...)
ZeroProtocolState ==
    [is_host |-> FALSE, is_connected |-> FALSE,
     local_player_id |-> 0, remote_player_id |-> 0,
     current_frame |-> 0, last_received_frame |-> 0,
     latency_samples |-> 0, avg_latency |-> U32Zero, jitter |-> 0]

Slots == 0..(PROTOCOL_INPUT_BUFFER_SIZE - 1)

\* input_buffer_t = {0}
ZeroInputBuffer ==
    [inputs |-> [i \in Slots |-> ZeroInputPacket], start_frame |-> 0, count |-> 0]

MAX(a, b) == IF a > b THEN a ELSE b

\* ---------------------------------------------------------------------------
\* protocol.c: the codec
\* ---------------------------------------------------------------------------
\* (int8_t)(steering * 100.0f) for steering on the 1/100 grid, h hundredths:
\* the single-precision product of the float nearest h/100 and 100.0f lies
\* just below h for |h| = 53 and |h| = 59, and the cast truncates toward zero
SteeringToWire(h) ==
    IF h \in {53, 59} THEN h - 1
    ELSE IF h \in {-53, -59} THEN h + 1
    ELSE ToI8(h)

\* input->throttle ? 100 : 0 (and the same for brake)
PedalToWire(h) == IF h # 0 THEN 100 ELSE 0

\* the four tests of input->buttons
ButtonsToWire(buttons) ==
    (IF "A" \in buttons THEN 1 ELSE 0) + (IF "B" \in buttons THEN 2 ELSE 0)
      + (IF "START" \in buttons THEN 4 ELSE 0)
      + (IF "SELECT" \in buttons THEN 8 ELSE 0)

\* input states handed to pack and store: full throttle steering left, and
\* half throttle with full brake steering right
InputStates ==
    {[throttle |-> 100, brake |-> 0, steering |-> -37, buttons |-> {"A"}],
     [throttle |-> 50, brake |-> 100, steering |-> 53, buttons |-> {"B", "START"}]}

\* cars handed to pack (raw 16.16 values)
LinkCar ==
    [position |-> [x |-> 65536, y |-> -131072],
     velocity |-> [x |-> 300, y |-> -7], heading |-> 102944]
Cars ==
    {LinkCar,
     [position |-> [x |-> -5, y |-> 2000000000],
      velocity |-> [x |-> -2000000000, y |-> 1], heading |-> -1]}

\* The packets of a run differ in few fields only; the checksums of the
\* frequent ones are computed once, by crc16, and looked up afterwards.
LinkPlayerIds == 0..3

\* a byte damaged on the link: one bit flipped, bit 0 or bit 6
ByteFaults(b) ==
    {IF b % 2 = 1 THEN b - 1 ELSE b + 1,
     IF (b \div 64) % 2 = 1 THEN b - 64 ELSE b + 64}

\* the bytes of wire with the byte at pos replaced by v
CorruptByte(wire, pos, v) == [wire EXCEPT ![pos] = v]

\* what a receiver reads when one byte of packet p was replaced on the link
CorruptedInputPackets(p) ==
    LET wire == InputPacketWire(p)
    IN  UNION {{InputPacketOfWire(CorruptByte(wire, pos, v)) :
                    v \in ByteFaults(wire[pos])} : pos \in DOMAIN wire}
CorruptedGameStatePackets(p) ==
    LET wire == GameStatePacketWire(p)
    IN  UNION {{GameStatePacketOfWire(CorruptByte(wire, pos, v)) :
                    v \in ByteFaults(wire[pos])} : pos \in DOMAIN wire}

LinkFrames == 0..(MaxFrame + PROTOCOL_INPUT_BUFFER_SIZE + 2)
LinkSteering(frame) == (frame % 90) - 45
FrequentInputBodies ==
    {[player_id |-> id, throttle |-> 100, brake |-> 0,
      steering |-> LinkSteering(f), buttons |-> 1,
      frame_number |-> f, timestamp |-> 17, checksum |-> 0] :
        id \in LinkPlayerIds, f \in LinkFrames}
    \cup
    {[player_id |-> id, throttle |-> PedalToWire(i.throttle),
      brake |-> PedalToWire(i.brake), steering |-> SteeringToWire(i.steering),
      buttons |-> ButtonsToWire(i.buttons),
      frame_number |-> f, timestamp |-> 40, checksum |-> 0] :
        id \in 0..1, f \in 0..(MaxFrame + 1), i \in InputStates}
    \cup
    UNION {{[q EXCEPT !.checksum = 0] : q \in CorruptedInputPackets(b)} :
             b \in {[player_id |-> id, throttle |-> PedalToWire(i.throttle),
                     brake |-> PedalToWire(i.brake),
                     steering |-> SteeringToWire(i.steering),
                     buttons |-> ButtonsToWire(i.buttons),
                     frame_number |-> f, timestamp |-> 40, checksum |-> 0] :
                       id \in 0..1, f \in 0..MaxPeerFrame, i \in InputStates}}
FrequentInputChecksums ==
    [b \in FrequentInputBodies |-> crc16(InputPacketBytes(b))]

\* crc16((uint8_t *)packet, sizeof(input_packet_t) - sizeof(uint16_t))
InputChecksum(p) ==
    LET body == [p EXCEPT !.checksum = 0]
    IN  IF body \in FrequentInputBodies THEN FrequentInputChecksums[body]
        ELSE crc16(InputPacketBytes(p))

FrequentGameStateBodies ==
    {[game_state |-> 0, player_id |-> id, frame_number |-> 5,
      car_position_x |-> LinkCar.position.x, car_position_y |-> LinkCar.position.y,
      car_velocity_x |-> LinkCar.velocity.x, car_velocity_y |-> LinkCar.velocity.y,
      car_heading |-> LinkCar.heading,
      checkpoint_index |-> k, lap_count |-> 1, race_finished |-> 0,
      timestamp |-> 30, checksum |-> 0] : id \in LinkPlayerIds, k \in 0..1}
    \cup
    {[game_state |-> 0, player_id |-> id, frame_number |-> f,
      car_position_x |-> c.position.x, car_position_y |-> c.position.y,
      car_velocity_x |-> c.velocity.x, car_velocity_y |-> c.velocity.y,
      car_heading |-> c.heading,
      checkpoint_index |-> 0, lap_count |-> 0, race_finished |-> 0,
      timestamp |-> 40, checksum |-> 0] :
        id \in 0..1, f \in 0..(MaxPeerFrame + 1), c \in Cars}
    \cup
    UNION {{[q EXCEPT !.checksum = 0] : q \in CorruptedGameStatePackets(b)} :
             b \in {[game_state |-> 0, player_id |-> id, frame_number |-> f,
                     car_position_x |-> c.position.x,
                     car_position_y |-> c.position.y,
                     car_velocity_x |-> c.velocity.x,
                     car_velocity_y |-> c.velocity.y,
                     car_heading |-> c.heading,
                     checkpoint_index |-> 0, lap_count |-> 0, race_finished |-> 0,
                     timestamp |-> 40, checksum |-> 0] :
                       id \in 0..1, f \in 0..MaxPeerFrame, c \in Cars}}
FrequentGameStateChecksums ==
    [b \in FrequentGameStateBodies |-> crc16(GameStatePacketBytes(b))]

\* crc16((uint8_t *)packet, sizeof(game_state_packet_t) - sizeof(uint16_t))
GameStateChecksum(p) ==
    LET body == [p EXCEPT !.checksum = 0]
    IN  IF body \in FrequentGameStateBodies THEN FrequentGameStateChecksums[body]
        ELSE crc16(GameStatePacketBytes(p))

\* protocol_pack_input: the packet written for input at time now (ms)
protocol_pack_input(st, input, now) ==
    LET body == [player_id |-> st.local_player_id,
                 throttle |-> PedalToWire(input.throttle),
                 brake |-> PedalToWire(input.brake),
                 steering |-> SteeringToWire(input.steering),
                 buttons |-> ButtonsToWire(input.buttons),
                 frame_number |-> st.current_frame,
                 timestamp |-> ToU16(now),
                 checksum |-> 0]
    IN  [body EXCEPT !.checksum = InputChecksum(body)]

\* the loop of protocol_pack_game_state: the first passed checkpoint, or none
PassedIndices(w) ==
    {i \in 0..(w.checkpoint_count - 1) : w.checkpoints[i].passed}
FirstPassed(w) ==
    CHOOSE i \in PassedIndices(w) : \A j \in PassedIndices(w) : i <= j

\* protocol_pack_game_state
protocol_pack_game_state(st, w, car, now) ==
    LET found == PassedIndices(w) # {}
        lap == IF found THEN ToU8(w.checkpoints[FirstPassed(w)].lap_count) ELSE 0
        body == [game_state |-> 0,
                 player_id |-> st.local_player_id,
                 frame_number |-> st.current_frame,
                 car_position_x |-> car.position.x,
                 car_position_y |-> car.position.y,
                 car_velocity_x |-> car.velocity.x,
                 car_velocity_y |-> car.velocity.y,
                 car_heading |-> car.heading,
                 checkpoint_index |-> IF found THEN ToU8(FirstPassed(w)) ELSE 0,
                 lap_count |-> lap,
                 race_finished |-> IF found /\ lap >= w.total_laps THEN 1 ELSE 0,
                 timestamp |-> ToU16(now),
                 checksum |-> 0]
    IN  [body EXCEPT !.checksum = GameStateChecksum(body)]

\* the player id test with the id cut to its low bit
PlayerIdMatches_LowBit(st, p) == (p.player_id % 2) = st.remote_player_id

\* the first test of both unpack functions
PlayerIdMatches(st, p) == p.player_id = st.remote_player_id

\* protocol_unpack_input without its checksum test
InputChecksumMatches_Untested(p) == TRUE

\* the second test of protocol_unpack_input
InputChecksumMatches(p) == p.checksum = InputChecksum(p)

\* the second test of protocol_unpack_game_state
GameStateChecksumMatches(p) == p.checksum = GameStateChecksum(p)

\* what protocol_unpack_input logs and does: the player test comes first
InputReport(st, p) ==
    IF ~PlayerIdMatches(st, p) THEN "wrong_player"
    ELSE IF ~InputChecksumMatches(p) THEN "checksum_mismatch"
    ELSE "accepted"

\* what protocol_unpack_game_state logs and does
GameStateReport(st, p) ==
    IF ~PlayerIdMatches(st, p) THEN "wrong_player"
    ELSE IF ~GameStateChecksumMatches(p) THEN "checksum_mismatch"
    ELSE "accepted"

\* protocol_unpack_input gets past both early returns
InputAccepted(st, p) == PlayerIdMatches(st, p) /\ InputChecksumMatches(p)

\* protocol_unpack_game_state gets past both early returns
GameStateAccepted(st, p) == PlayerIdMatches(st, p) /\ GameStateChecksumMatches(p)

\* (float)packet->x / 100.0f, in hundredths
UnpackedControls(p) ==
    [throttle |-> p.throttle, brake |-> p.brake, steering |-> p.steering]

\* the car update with velocity.y taken from car_velocity_x
UnpackedCar_VelocitySlip(car, p) ==
    [car EXCEPT !.position = [x |-> p.car_position_x, y |-> p.car_position_y],
                !.velocity = [x |-> p.car_velocity_x, y |-> p.car_velocity_x],
                !.heading = p.car_heading]

\* "Update remote car state"
UnpackedCar(car, p) ==
    [car EXCEPT !.position = [x |-> p.car_position_x, y |-> p.car_position_y],
                !.velocity = [x |-> p.car_velocity_x, y |-> p.car_velocity_y],
                !.heading = p.car_heading]

\* "Update checkpoint and lap info"
UnpackedWorld(w, p) ==
    IF p.checkpoint_index < w.checkpoint_count
    THEN [w EXCEPT !.checkpoints[p.checkpoint_index].passed = TRUE,
                   !.checkpoints[p.checkpoint_index].lap_count = p.lap_count]
    ELSE w

\* "Calculate latency" and last_received_frame
UnpackedTracker(st, p, now) ==
    LET latency == U32Sub(U32Of(now), U32Of(p.timestamp))
        n == st.latency_samples + 1
        full == PROTOCOL_MAX_LATENCY_SAMPLES
    IN  IF st.latency_samples < full
        THEN [st EXCEPT !.latency_samples = n,
                        !.avg_latency =
                            U32Div(U32Add(U32Mul(@, n - 1), latency), n),
                        !.last_received_frame = p.frame_number]
        ELSE [st EXCEPT !.avg_latency =
                            U32Div(U32Add(U32Mul(@, full - 1), latency), full),
                        !.last_received_frame = p.frame_number]

\* ---------------------------------------------------------------------------
\* protocol.c: the input ring buffers
\* ---------------------------------------------------------------------------
\* frame numbers stay far below 2^31 in the model; (a - b) % 64 is the value
\* the uint32_t expression has also when a < b, since 64 divides 2^32
BufferIndex(buf, frame) == (frame - buf.start_frame) % PROTOCOL_INPUT_BUFFER_SIZE

\* the window test with its upper end included
InWindow_Inclusive(buf, frame) ==
    /\ frame >= buf.start_frame
    /\ frame <= buf.start_frame + PROTOCOL_INPUT_BUFFER_SIZE

\* the window test of the two stores
InWindow(buf, frame) ==
    /\ frame >= buf.start_frame
    /\ frame < buf.start_frame + PROTOCOL_INPUT_BUFFER_SIZE

\* the store with count assigned, not raised
StoreInput_NoMax(buf, frame, p) ==
    IF InWindow(buf, frame)
    THEN [buf EXCEPT !.inputs[BufferIndex(buf, frame)] = p,
                     !.count = frame - buf.start_frame + 1]
    ELSE buf

\* the store of protocol_unpack_input and protocol_store_local_input
StoreInput(buf, frame, p) ==
    IF InWindow(buf, frame)
    THEN [buf EXCEPT !.inputs[BufferIndex(buf, frame)] = p,
                     !.count = MAX(@, frame - buf.start_frame + 1)]
    ELSE buf

\* the neutral input without the frame stamp
NeutralInput_Unstamped(out, frame) ==
    [out EXCEPT !.throttle = 0, !.brake = 0, !.steering = 0, !.buttons = 0]

\* the neutral input written into the caller's packet
NeutralInput(out, frame) ==
    [out EXCEPT !.throttle = 0, !.brake = 0, !.steering = 0, !.buttons = 0,
                !.frame_number = frame]

\* the slot read by "Extrapolate from last known input"
LastIndex(buf) ==
    (buf.start_frame + buf.count - 1) % PROTOCOL_INPUT_BUFFER_SIZE

\* the prediction with the stored sample read at frame % 64, as the
\* extrapolation reads its slot
protocol_predict_remote_input_AbsoluteIndex(buf, frame, out) ==
    IF buf.count = 0 THEN NeutralInput(out, frame)
    ELSE IF frame < buf.start_frame THEN NeutralInput(out, frame)
    ELSE IF frame < buf.start_frame + buf.count
         THEN buf.inputs[frame % PROTOCOL_INPUT_BUFFER_SIZE]
    ELSE [buf.inputs[LastIndex(buf)] EXCEPT !.frame_number = frame]

\* protocol_predict_remote_input: the caller's packet afterwards
protocol_predict_remote_input(buf, frame, out) ==
    IF buf.count = 0 THEN NeutralInput(out, frame)
    ELSE IF frame < buf.start_frame THEN NeutralInput(out, frame)
    ELSE IF frame < buf.start_frame + buf.count
         THEN buf.inputs[BufferIndex(buf, frame)]
    ELSE [buf.inputs[LastIndex(buf)] EXCEPT !.frame_number = frame]

\* protocol_predict_remote_input: its return value, true on all four paths
PredictionAvailable(buf, frame) == TRUE

\* "Clean up old input data": the test of protocol_advance_frame
NeedsCompaction(buf, frame) ==
    frame > buf.start_frame + buf.count + (PROTOCOL_INPUT_BUFFER_SIZE \div 2)

\* one buffer after protocol_advance_frame moved the counter to frame
CompactBuffer(buf, frame) ==
    IF NeedsCompaction(buf, frame)
    THEN [buf EXCEPT !.start_frame = frame - (PROTOCOL_INPUT_BUFFER_SIZE \div 4),
                     !.count = PROTOCOL_INPUT_BUFFER_SIZE \div 4]
    ELSE buf

\* ---------------------------------------------------------------------------
\* physics.h / physics.c: cars, checkpoints and the world
\* ---------------------------------------------------------------------------
PHYSICS_MAX_CARS == 2
PHYSICS_FRICTION_COEFFICIENT == 55705
PHYSICS_DRAG_COEFFICIENT == 9830
PHYSICS_COLLISION_ELASTICITY == 49152
PHYSICS_WALL_DISTANCE == 262144

CarIndices == 0..(PHYSICS_MAX_CARS - 1)

\* physics_update(&physics_world, 0.016f): FLOAT_TO_FIXED16(delta_time) and
\* (uint32_t)(delta_time * 1000)
DeltaTime == 1048
TickMillis == 16

Zero2 == [x |-> 0, y |-> 0]
Units(x, y) == [x |-> INT_TO_FIXED16(x), y |-> INT_TO_FIXED16(y)]

\* mass, drag and friction of the cars: all 0 after the memset of
\* game_loop_init, or the default configuration of physics_init
ZeroedConfig == [mass |-> 0, drag |-> 0, friction |-> 0]
DefaultConfig ==
    [mass |-> INT_TO_FIXED16(1000), drag |-> PHYSICS_DRAG_COEFFICIENT,
     friction |-> PHYSICS_FRICTION_COEFFICIENT]
CarConfigs == {ZeroedConfig, DefaultConfig}

\* car_physics_t after memset, with the configuration c
ConfiguredCar(c) ==
    [position |-> Zero2, velocity |-> Zero2, acceleration |-> Zero2,
     heading |-> 0, angular_vel |-> 0, speed |-> 0,
     mass |-> c.mass, drag |-> c.drag, friction |-> c.friction]

\* checkpoint_t as game_loop_init loads it from a track
Checkpoint(position, radius, index) ==
    [position |-> position, radius |-> radius, passed |-> FALSE,
     index |-> index, lap_count |-> 0]

\* the checkpoints of the tracks of the model: none, one gate, two gates
Gate0 == Units(2, 0)
Gate1 == Units(0, 2)
GateRadius == INT_TO_FIXED16(1)
Tracks ==
    {<<>>,
     <<Checkpoint(Gate0, GateRadius, 0)>>,
     <<Checkpoint(Gate0, GateRadius, 0), Checkpoint(Gate1, GateRadius, 1)>>}

\* the result of a division by zero in fixed_div, which the language leaves
\* undefined: the program is stopped by the exception of the division, or
\* the division yields some quotient
DivideByZeroOutcomes ==
    {[trap |-> TRUE, quotient |-> 0], [trap |-> FALSE, quotient |-> 0],
     [trap |-> FALSE, quotient |-> -1]}

\* fixed_div(a, b) where b may be 0
Quotient(a, b, z) == IF b = 0 THEN z.quotient ELSE fixed_div(a, b)

\* physics_reset_car
physics_reset_car(car, position, heading) ==
    [car EXCEPT !.position = position, !.velocity = Zero2,
                !.acceleration = Zero2, !.heading = heading,
                !.angular_vel = 0, !.speed = 0]

\* physics_apply_force
physics_apply_force(car, force, z) ==
    [car EXCEPT !.acceleration =
        vec2_add(@, vec2_scale(force, Quotient(FIXED16_ONE, car.mass, z)))]

\* physics_apply_torque
physics_apply_torque(car, torque, z) ==
    [car EXCEPT !.angular_vel = AddI32(@, Quotient(torque, car.mass, z))]

\* physics_start_race; laps_done is history, not a field of the code: the
\* number of times the car went round all checkpoints since the start
physics_start_race(w) ==
    [w EXCEPT !.race_time = [i \in CarIndices |-> 0],
              !.race_finished = [i \in CarIndices |-> FALSE],
              !.current_checkpoint = [i \in CarIndices |-> 0],
              !.checkpoints = [k \in DOMAIN @ |-> [@[k] EXCEPT !.passed = FALSE]],
              !.laps_done = [i \in CarIndices |-> 0]]

\* physics_reset_race: vec2_t start_pos = {0, -i * 100}
physics_reset_race(w) ==
    [physics_start_race(w) EXCEPT
        !.cars = [i \in CarIndices |->
                    physics_reset_car(@[i], [x |-> 0, y |-> -i * 100], 0)]]

\* the loop of physics_check_race_finished
AllCheckpointsPassed(w) ==
    \A k \in 0..(w.checkpoint_count - 1) : w.checkpoints[k].passed

\* physics_check_race_finished, for car_index below PHYSICS_MAX_CARS
physics_check_race_finished(w, i) ==
    IF ~w.race_finished[i] /\ AllCheckpointsPassed(w)
    THEN [w EXCEPT !.race_finished[i] = TRUE]
    ELSE w

\* integrate_motion
integrate_motion(car, dt) ==
    LET velocity == vec2_add(car.velocity, vec2_scale(car.acceleration, dt))
    IN  [car EXCEPT !.velocity = velocity,
                    !.position = vec2_add(@, vec2_scale(velocity, dt)),
                    !.heading = @ + fixed_mul(car.angular_vel, dt),
                    !.speed = vec2_length(velocity),
                    !.acceleration = Zero2]

\* apply_friction
apply_friction(car, dt, z) ==
    LET drag_force == vec2_scale(car.velocity, -car.drag)
        friction_force ==
            vec2_scale(car.velocity, -fixed_mul(car.friction, car.mass))
        pushed == physics_apply_force(physics_apply_force(car, drag_force, z),
                                      friction_force, z)
    IN  [pushed EXCEPT !.angular_vel =
            fixed_mul(@, FIXED16_ONE - fixed_mul(FIXED16_ONE \div 10, dt))]

\* physics_check_checkpoint_collision
physics_check_checkpoint_collision(car, checkpoint) ==
    LET delta == vec2_sub(car.position, checkpoint.position)
    IN  /\ ~checkpoint.passed
        /\ vec2_dot(delta, delta) < fixed_mul(checkpoint.radius, checkpoint.radius)

\* update_checkpoint_progress that counts a passed checkpoint twice
update_checkpoint_progress_Twice(w, i) ==
    LET current == w.current_checkpoint[i]
    IN  IF current >= w.checkpoint_count THEN w
        ELSE IF ~physics_check_checkpoint_collision(w.cars[i], w.checkpoints[current])
        THEN w
        ELSE [w EXCEPT !.checkpoints[current].passed = TRUE,
                       !.current_checkpoint[i] = current + 2]

\* update_checkpoint_progress, for car_index below PHYSICS_MAX_CARS
update_checkpoint_progress(w, i) ==
    LET current == w.current_checkpoint[i]
    IN  IF current >= w.checkpoint_count THEN w
        ELSE IF ~physics_check_checkpoint_collision(w.cars[i], w.checkpoints[current])
        THEN w
        ELSE IF current + 1 >= w.checkpoint_count
        THEN [w EXCEPT !.current_checkpoint[i] = 0,
                       !.checkpoints =
                           [k \in DOMAIN @ |-> [@[k] EXCEPT !.passed = FALSE]],
                       !.laps_done[i] = @ + 1]
        ELSE [w EXCEPT !.checkpoints[current].passed = TRUE,
                       !.current_checkpoint[i] = current + 1]

\* the test at the head of the loop of physics_update that skips no car
SkipsCar_Never(w, i) == FALSE

\* the test at the head of the loop of physics_update
SkipsCar(w, i) == w.race_finished[i]

\* the body of the loop of physics_update for car i
CarUpdated(w, i, z) ==
    IF SkipsCar(w, i) THEN w
    ELSE LET car == apply_friction(integrate_motion(w.cars[i], DeltaTime),
                                   DeltaTime, z)
             progressed == update_checkpoint_progress([w EXCEPT !.cars[i] = car], i)
         IN  [progressed EXCEPT !.race_time[i] = @ + TickMillis]

\* the loop of physics_update
CarsUpdated(w, z) == CarUpdated(CarUpdated(w, 0, z), 1, z)

\* physics_check_track_collision with both out-parameters given
physics_check_track_collision(position) ==
    LET distance_from_center == vec2_length(position)
    IN  IF distance_from_center > PHYSICS_WALL_DISTANCE
        THEN [hit |-> TRUE,
              normal |-> vec2_scale(position,
                                    fixed_div(FIXED16_ONE, distance_from_center)),
              penetration |-> distance_from_center - PHYSICS_WALL_DISTANCE]
        ELSE IF distance_from_center < -PHYSICS_WALL_DISTANCE
        THEN [hit |-> TRUE,
              normal |-> vec2_scale(position,
                                    -fixed_div(FIXED16_ONE, distance_from_center)),
              penetration |-> (-PHYSICS_WALL_DISTANCE) - distance_from_center]
        ELSE [hit |-> FALSE, normal |-> Zero2, penetration |-> 0]

\* "Resolve car-track collisions", for one car
WallResolved(car) ==
    LET contact == physics_check_track_collision(car.position)
        normal == contact.normal
        correction == vec2_scale(normal, contact.penetration)
        normal_vel == vec2_dot(car.velocity, normal)
        reflected ==
            vec2_sub(car.velocity,
                     vec2_scale(normal, fixed_mul(FIXED16_ONE * 2, normal_vel)))
    IN  IF ~contact.hit THEN car
        ELSE [car EXCEPT
                !.position = vec2_add(@, correction),
                !.velocity = IF normal_vel < 0
                             THEN vec2_scale(reflected, PHYSICS_COLLISION_ELASTICITY)
                             ELSE @]

\* the first loop of resolve_collisions
WallsResolved(w) ==
    [w EXCEPT !.cars = [i \in CarIndices |-> WallResolved(@[i])]]

\* physics_check_car_collision
physics_check_car_collision(car1, car2) ==
    LET delta == vec2_sub(car1.position, car2.position)
        min_distance == INT_TO_FIXED16(100)
    IN  vec2_dot(delta, delta) < fixed_mul(min_distance, min_distance)

\* the second loop of resolve_collisions: the one pair of cars
CarsResolved(w, z) ==
    LET delta == vec2_sub(w.cars[0].position, w.cars[1].position)
        direction ==
            vec2_scale(delta, Quotient(FIXED16_ONE, vec2_length(delta), z))
        push == vec2_scale(direction, INT_TO_FIXED16(50))
    IN  IF ~physics_check_car_collision(w.cars[0], w.cars[1]) THEN w
        ELSE [w EXCEPT !.cars[0].velocity = w.cars[1].velocity,
                       !.cars[1].velocity = w.cars[0].velocity,
                       !.cars[0].position = vec2_add(@, push),
                       !.cars[1].position = vec2_sub(@, push)]

\* resolve_collisions
resolve_collisions(w, z) == CarsResolved(WallsResolved(w), z)

\* physics_update with a world and delta_time 0.016f
physics_update(w, z) == resolve_collisions(CarsUpdated(w, z), z)

\* physics_update divides by zero: in physics_apply_force for a car of mass 0
\* that is not skipped, or in resolve_collisions, entered with the world
\* walled, for cars in contact whose position difference has length 0
DividesByZero(w, walled) ==
    \/ \E i \in CarIndices : ~SkipsCar(w, i) /\ w.cars[i].mass = 0
    \/ /\ physics_check_car_collision(walled.cars[0], walled.cars[1])
       /\ vec2_length(vec2_sub(walled.cars[0].position,
                               walled.cars[1].position)) = 0

\* the signed sums of physics_update stay inside int32_t: the cars are in the
\* arena, and the sums of squares in vec2_dot and vec2_length fit (moved is
\* the world after the loop over the cars, walled after the car-track loop)
InArena(car) ==
    \A v \in {car.position, car.velocity, car.acceleration} :
        /\ v.x >= -INT_TO_FIXED16(ArenaLimit) /\ v.x <= INT_TO_FIXED16(ArenaLimit)
        /\ v.y >= -INT_TO_FIXED16(ArenaLimit) /\ v.y <= INT_TO_FIXED16(ArenaLimit)
SumsInRange(w, moved, walled) ==
    /\ \A i \in CarIndices : InArena(w.cars[i])
    /\ LET between == vec2_sub(walled.cars[0].position, walled.cars[1].position)
       IN  /\ \A i \in CarIndices :
                 /\ DotInRange(moved.cars[i].velocity, moved.cars[i].velocity)
                 /\ DotInRange(moved.cars[i].position, moved.cars[i].position)
                 /\ \A k \in 0..(w.checkpoint_count - 1) :
                        LET delta == vec2_sub(moved.cars[i].position,
                                              w.checkpoints[k].position)
                        IN  DotInRange(delta, delta)
           /\ DotInRange(between, between)

\* physics_world_t of game_loop_init: memset, the checkpoints of a track, the
\* cars with configuration c, then physics_reset_race
RaceWorld(track, c) ==
    physics_reset_race(
        [checkpoint_count |-> Len(track),
         checkpoints |-> [k \in 0..(Len(track) - 1) |-> track[k + 1]],
         total_laps |-> TotalLaps,
         cars |-> [i \in CarIndices |-> ConfiguredCar(c)],
         current_checkpoint |-> [i \in CarIndices |-> 0],
         race_time |-> [i \in CarIndices |-> 0],
         race_finished |-> [i \in CarIndices |-> FALSE],
         laps_done |-> [i \in CarIndices |-> 0]])

\* ---------------------------------------------------------------------------
\* State
\* ---------------------------------------------------------------------------
VARIABLES
    protocol_state,       \* per device: protocol_state
    local_input_buffer,   \* per device: local_input_buffer
    remote_input_buffer,  \* per device: remote_input_buffer
    remote_car,           \* per device: the car_physics_t handed to unpack
    world,                \* per device: the physics_world_t handed to pack/unpack
    tx_input,             \* per device: the packet protocol_pack_input filled
    tx_state,             \* per device: the packet protocol_pack_game_state filled
    remote_stored,        \* per device: the remote samples stored since the
                          \* last reset, by frame (history)
    last,                 \* the last call: its arguments and what it wrote
                          \* through its out-parameters
    ops,                  \* number of calls so far, protocol_advance_frame apart
    ble_state,            \* ble.c: ble_state
    ble_connection_handle,\* ble.c: ble_connection_handle
    ble_event_cb,         \* ble.c: ble_event_cb, the registered callback
    gap,                  \* the NimBLE host: whether it is advertising, and
                          \* whether the link to the peer is up
    current_state,        \* lobby.c: current_state
    player_count,         \* lobby.c: current_session.player_count
    track_cache,          \* track_loader.c: track_cache, by slot
    cache_count,          \* track_loader.c: cache_count
    loaded,               \* the number of tracks track_loader_load returned
    unloaded,             \* per track: how often track_unload freed it
    gatt_game_state_data, \* gatt.c: gatt_game_state_data
    gatt_input_data,      \* gatt.c: gatt_input_data
    gatt_ccc,             \* gatt.c: gatt_game_state_ccc and gatt_input_ccc
    cache_entries,        \* track_cache.c: track_cache, by slot
    cache_mutex,          \* track_cache.c: cache_mutex and the task holding it
    cache_hits,           \* track_cache.c: cache_hits
    cache_misses,         \* track_cache.c: cache_misses
    cache_evictions,      \* track_cache.c: cache_evictions
    task,                 \* per task: the call it is in and where it is in it
    gets                  \* the number of track_cache_get calls that returned
                          \* from an initialised cache

\* the synchronization core: the state of protocol.c and physics.c
core ==
    <<protocol_state, local_input_buffer, remote_input_buffer, remote_car,
      world, tx_input, tx_state, remote_stored>>

\* the transport around the core: ble.c and the lobby
transport ==
    <<ble_state, ble_connection_handle, ble_event_cb, gap, current_state,
      player_count>>

\* track_loader.c
loader == <<track_cache, cache_count, loaded, unloaded>>

\* gatt.c
gatt == <<gatt_game_state_data, gatt_input_data, gatt_ccc>>

\* track_cache.c and the tasks that call it
cache ==
    <<cache_entries, cache_mutex, cache_hits, cache_misses, cache_evictions,
      task, gets>>

\* the collaborators of the core
peripherals == <<transport, loader, gatt, cache>>

vars ==
    <<protocol_state, local_input_buffer, remote_input_buffer, remote_car,
      world, tx_input, tx_state, remote_stored, last, ops, peripherals>>

ZeroInputState == [throttle |-> 0, brake |-> 0, steering |-> 0, buttons |-> {}]

\* what the caller's variables hold before a call that writes through
\* out-parameters: values no call writes
StaleControls == [throttle |-> 11, brake |-> 22, steering |-> -33]
StalePacket ==
    [player_id |-> 9, throttle |-> 11, brake |-> 22, steering |-> -33,
     buttons |-> 128, frame_number |-> 999, timestamp |-> 555, checksum |-> 777]

NoCall ==
    [op |-> "none", dev |-> "A", frame |-> 0, ipkt |-> ZeroInputPacket,
     gpkt |-> ZeroGameStatePacket, input |-> ZeroInputState, car |-> ZeroCar,
     controls |-> StaleControls, predicted |-> StalePacket, ok |-> FALSE,
     report |-> "none", index |-> 0, before |-> InitWorld, moved |-> InitWorld,
     walled |-> InitWorld, divided |-> FALSE, fault |-> FALSE,
     calls |-> <<>>, args |-> <<>>, result |-> 0]

Call(op, d) == [NoCall EXCEPT !.op = op, !.dev = d]

\* ble.c and the lobby before any call: their static initialisers, and a
\* NimBLE host that neither advertises nor holds a link
BLE_HS_CONN_HANDLE_NONE == 65535
InitTransport ==
    /\ ble_state = "BLE_STATE_IDLE"
    /\ ble_connection_handle = BLE_HS_CONN_HANDLE_NONE
    /\ ble_event_cb = "NULL"
    /\ gap = [advertising |-> FALSE, connected |-> FALSE]
    /\ current_state = "LOBBY_STATE_IDLE"
    /\ player_count = 0

\* the tracks a run loads
MaxTracks == 5
TrackIds == 1..MaxTracks
\* loader_config as initialised
LoaderConfig == [enable_cache |-> TRUE, max_tracks_cached |-> 4]
LoaderSlots == 0..3

\* track_loader.c before any call: an empty cache, NULL written 0
InitLoader ==
    /\ track_cache = [i \in LoaderSlots |-> 0]
    /\ cache_count = 0
    /\ loaded = 0
    /\ unloaded = [t \in TrackIds |-> 0]

\* gatt.c before any call
InitGatt ==
    /\ gatt_game_state_data = ZeroGameStatePacket
    /\ gatt_input_data = ZeroInputPacket
    /\ gatt_ccc = [game_state |-> 0, input |-> 0]

\* the slots of the track cache, the tasks that call it, and an entry that
\* holds no track
CacheSlots == {0, 1}
Tasks == {"t1", "t2"}
ZeroEntry == [track |-> 0, filename |-> "", last_access |-> 0, access_count |-> 0]
Idle == [pc |-> "idle", fn |-> "none", filename |-> "", reg |-> 0]

\* track_cache.c before track_cache_init
InitCache ==
    /\ cache_entries = [i \in CacheSlots |-> ZeroEntry]
    /\ cache_mutex = "NULL"
    /\ cache_hits = 0
    /\ cache_misses = 0
    /\ cache_evictions = 0
    /\ task = [t \in Tasks |-> Idle]
    /\ gets = 0

InitPeripherals ==
    /\ InitTransport
    /\ InitLoader
    /\ InitGatt
    /\ InitCache

Init ==
    /\ protocol_state = [d \in Devices |-> StaticProtocolState]
    /\ local_input_buffer = [d \in Devices |-> ZeroInputBuffer]
    /\ remote_input_buffer = [d \in Devices |-> ZeroInputBuffer]
    /\ remote_car = [d \in Devices |-> ZeroCar]
    /\ world = [d \in Devices |-> InitWorld]
    /\ tx_input = [d \in Devices |-> [packet |-> ZeroInputPacket, input |-> ZeroInputState]]
    /\ tx_state = [d \in Devices |-> [packet |-> ZeroGameStatePacket, car |-> ZeroCar]]
    /\ remote_stored = [d \in Devices |-> {}]
    /\ last = NoCall
    /\ ops = 0
    /\ InitPeripherals

\* the remote samples on record once p was stored for its frame
Remember(stored, p) ==
    {q \in stored : q.frame_number # p.frame_number} \cup {p}

\* ---------------------------------------------------------------------------
\* Operations of protocol.c, on device d
\* ---------------------------------------------------------------------------
\* protocol_init(is_host)
InitialisedState(is_host) ==
    [ZeroProtocolState EXCEPT !.is_host = is_host,
                              !.local_player_id = IF is_host THEN 0 ELSE 1,
                              !.remote_player_id = IF is_host THEN 1 ELSE 0]

ProtocolInit(d, is_host) ==
    /\ protocol_state' = [protocol_state EXCEPT ![d] = InitialisedState(is_host)]
    /\ local_input_buffer' = [local_input_buffer EXCEPT ![d] = ZeroInputBuffer]
    /\ remote_input_buffer' = [remote_input_buffer EXCEPT ![d] = ZeroInputBuffer]
    /\ remote_stored' = [remote_stored EXCEPT ![d] = {}]
    /\ last' = Call("init", d)
    /\ UNCHANGED <<remote_car, world, tx_input, tx_state>>

\* protocol_reset(): the tracker fields it clears
ResetState(st) ==
    [st EXCEPT !.current_frame = 0, !.last_received_frame = 0,
               !.latency_samples = 0, !.avg_latency = U32Zero, !.jitter = 0]

ProtocolReset(d) ==
    /\ protocol_state' = [protocol_state EXCEPT ![d] = ResetState(@)]
    /\ local_input_buffer' = [local_input_buffer EXCEPT ![d] = ZeroInputBuffer]
    /\ remote_input_buffer' = [remote_input_buffer EXCEPT ![d] = ZeroInputBuffer]
    /\ remote_stored' = [remote_stored EXCEPT ![d] = {}]
    /\ last' = Call("reset", d)
    /\ UNCHANGED <<remote_car, world, tx_input, tx_state>>

\* protocol_handle_connection(connected)
ProtocolHandleConnection(d, connected) ==
    /\ protocol_state' = [protocol_state EXCEPT ![d] =
           IF connected THEN [@ EXCEPT !.is_connected = TRUE]
           ELSE ResetState([@ EXCEPT !.is_connected = FALSE])]
    /\ local_input_buffer' = [local_input_buffer EXCEPT ![d] =
           IF connected THEN @ ELSE ZeroInputBuffer]
    /\ remote_input_buffer' = [remote_input_buffer EXCEPT ![d] =
           IF connected THEN @ ELSE ZeroInputBuffer]
    /\ remote_stored' = [remote_stored EXCEPT ![d] = IF connected THEN @ ELSE {}]
    /\ last' = Call(IF connected THEN "connect" ELSE "disconnect", d)
    /\ UNCHANGED <<remote_car, world, tx_input, tx_state>>

\* protocol_advance_frame() with a counter that moves two frames at once
ProtocolAdvanceFrame_ByTwo(d) ==
    LET frame == protocol_state[d].current_frame + 2
    IN  /\ protocol_state' = [protocol_state EXCEPT ![d].current_frame = frame]
        /\ local_input_buffer' = [local_input_buffer EXCEPT ![d] =
               CompactBuffer(@, frame)]
        /\ remote_input_buffer' = [remote_input_buffer EXCEPT ![d] =
               CompactBuffer(@, frame)]
        /\ last' = [Call("advance_frame", d) EXCEPT !.frame = frame]
        /\ UNCHANGED <<remote_car, world, tx_input, tx_state, remote_stored>>

\* protocol_advance_frame()
ProtocolAdvanceFrame(d) ==
    LET frame == protocol_state[d].current_frame + 1
    IN  /\ protocol_state' = [protocol_state EXCEPT ![d].current_frame = frame]
        /\ local_input_buffer' = [local_input_buffer EXCEPT ![d] =
               CompactBuffer(@, frame)]
        /\ remote_input_buffer' = [remote_input_buffer EXCEPT ![d] =
               CompactBuffer(@, frame)]
        /\ last' = [Call("advance_frame", d) EXCEPT !.frame = frame]
        /\ UNCHANGED <<remote_car, world, tx_input, tx_state, remote_stored>>

\* protocol_pack_input(input, packet) at time now (ms)
ProtocolPackInput(d, input, now) ==
    LET p == protocol_pack_input(protocol_state[d], input, now)
    IN  /\ tx_input' = [tx_input EXCEPT ![d] = [packet |-> p, input |-> input]]
        /\ last' = [Call("pack_input", d) EXCEPT !.ipkt = p, !.input = input]
        /\ UNCHANGED <<protocol_state, local_input_buffer, remote_input_buffer,
                       remote_car, world, tx_state, remote_stored>>

\* protocol_pack_game_state(world, car, packet) at time now (ms)
ProtocolPackGameState(d, car, now) ==
    LET p == protocol_pack_game_state(protocol_state[d], world[d], car, now)
    IN  /\ tx_state' = [tx_state EXCEPT ![d] = [packet |-> p, car |-> car]]
        /\ last' = [Call("pack_game_state", d) EXCEPT !.gpkt = p, !.car = car]
        /\ UNCHANGED <<protocol_state, local_input_buffer, remote_input_buffer,
                       remote_car, world, tx_input, remote_stored>>

\* protocol_unpack_input(packet, throttle, brake, steering)
ProtocolUnpackInput(d, p) ==
    LET st == protocol_state[d]
        buf == remote_input_buffer[d]
        accepted == InputAccepted(st, p)
    IN  /\ remote_input_buffer' = [remote_input_buffer EXCEPT ![d] =
               IF accepted THEN StoreInput(buf, p.frame_number, p) ELSE buf]
        /\ remote_stored' = [remote_stored EXCEPT ![d] =
               IF /\ accepted
                  /\ p.frame_number >= buf.start_frame
                  /\ p.frame_number < buf.start_frame + PROTOCOL_INPUT_BUFFER_SIZE
               THEN Remember(@, p) ELSE @]
        /\ last' = [Call("unpack_input", d) EXCEPT
               !.ipkt = p, !.frame = p.frame_number,
               !.controls = IF accepted THEN UnpackedControls(p) ELSE @,
               !.report = InputReport(st, p)]
        /\ UNCHANGED <<protocol_state, local_input_buffer, remote_car, world,
                       tx_input, tx_state>>

\* protocol_unpack_game_state(packet, car, world) at time now (ms)
ProtocolUnpackGameState(d, p, now) ==
    LET st == protocol_state[d]
        accepted == GameStateAccepted(st, p)
    IN  /\ remote_car' = [remote_car EXCEPT ![d] =
               IF accepted THEN UnpackedCar(@, p) ELSE @]
        /\ world' = [world EXCEPT ![d] =
               IF accepted THEN UnpackedWorld(@, p) ELSE @]
        /\ protocol_state' = [protocol_state EXCEPT ![d] =
               IF accepted THEN UnpackedTracker(@, p, now) ELSE @]
        /\ last' = [Call("unpack_game_state", d) EXCEPT
               !.gpkt = p, !.report = GameStateReport(st, p),
               !.args = IF accepted
                        THEN <<U32Sub(U32Of(now), U32Of(p.timestamp)), now>>
                        ELSE <<>>]
        /\ UNCHANGED <<local_input_buffer, remote_input_buffer, tx_input,
                       tx_state, remote_stored>>

\* protocol_store_local_input(input, frame) at time now (ms)
ProtocolStoreLocalInput(d, input, frame, now) ==
    LET p == protocol_pack_input(protocol_state[d], input, now)
    IN  /\ local_input_buffer' = [local_input_buffer EXCEPT ![d] =
               StoreInput(@, frame, p)]
        /\ last' = [Call("store_local_input", d) EXCEPT
                       !.ipkt = p, !.input = input, !.frame = frame]
        /\ UNCHANGED <<protocol_state, remote_input_buffer, remote_car, world,
                       tx_input, tx_state, remote_stored>>

\* protocol_predict_remote_input(frame, predicted_input)
ProtocolPredictRemoteInput(d, frame) ==
    /\ last' = [Call("predict_remote_input", d) EXCEPT
           !.frame = frame,
           !.predicted = protocol_predict_remote_input(remote_input_buffer[d], frame, @),
           !.ok = PredictionAvailable(remote_input_buffer[d], frame)]
    /\ UNCHANGED <<protocol_state, local_input_buffer, remote_input_buffer,
                   remote_car, world, tx_input, tx_state, remote_stored>>

\* ---------------------------------------------------------------------------
\* Operations of physics.c, on the physics_world_t of device d
\* ---------------------------------------------------------------------------
\* physics_update(world, 0.016f); z is what a division by zero does. The
\* history keeps the world before the call, after the loop over the cars and
\* after the car-track loop of resolve_collisions.
PhysicsUpdate(d, z) ==
    \E moved \in {CarsUpdated(world[d], z)} :
    \E walled \in {WallsResolved(moved)} :
    \E divided \in {DividesByZero(world[d], walled)} :
        /\ SumsInRange(world[d], moved, walled)
        /\ world' = [world EXCEPT ![d] =
               IF divided /\ z.trap THEN @ ELSE CarsResolved(walled, z)]
        /\ last' = [Call("physics_update", d) EXCEPT
               !.before = world[d], !.moved = moved, !.walled = walled,
               !.divided = divided, !.fault = divided /\ z.trap]
        /\ UNCHANGED <<protocol_state, local_input_buffer, remote_input_buffer,
                       remote_car, tx_input, tx_state, remote_stored>>

\* physics_reset_car(&world->cars[i], position, 0)
PhysicsResetCar(d, i, position) ==
    /\ world' = [world EXCEPT ![d].cars[i] = physics_reset_car(@, position, 0)]
    /\ last' = [Call("physics_reset_car", d) EXCEPT
           !.index = i, !.before = world[d]]
    /\ UNCHANGED <<protocol_state, local_input_buffer, remote_input_buffer,
                   remote_car, tx_input, tx_state, remote_stored>>

\* physics_apply_force(&world->cars[i], force)
PhysicsApplyForce(d, i, force, z) ==
    LET stopped == world[d].cars[i].mass = 0 /\ z.trap
    IN  /\ world' = [world EXCEPT ![d].cars[i] =
               IF stopped THEN @ ELSE physics_apply_force(@, force, z)]
        /\ last' = [Call("physics_apply_force", d) EXCEPT
               !.index = i, !.before = world[d],
               !.divided = (world[d].cars[i].mass = 0), !.fault = stopped]
        /\ UNCHANGED <<protocol_state, local_input_buffer, remote_input_buffer,
                       remote_car, tx_input, tx_state, remote_stored>>

\* physics_apply_torque(&world->cars[i], torque)
PhysicsApplyTorque(d, i, torque, z) ==
    LET stopped == world[d].cars[i].mass = 0 /\ z.trap
    IN  /\ world' = [world EXCEPT ![d].cars[i] =
               IF stopped THEN @ ELSE physics_apply_torque(@, torque, z)]
        /\ last' = [Call("physics_apply_torque", d) EXCEPT
               !.index = i, !.before = world[d],
               !.divided = (world[d].cars[i].mass = 0), !.fault = stopped]
        /\ UNCHANGED <<protocol_state, local_input_buffer, remote_input_buffer,
                       remote_car, tx_input, tx_state, remote_stored>>

\* physics_check_race_finished(world, i)
PhysicsCheckRaceFinished(d, i) ==
    /\ world' = [world EXCEPT ![d] = physics_check_race_finished(@, i)]
    /\ last' = [Call("physics_check_race_finished", d) EXCEPT
           !.index = i, !.before = world[d],
           !.ok = physics_check_race_finished(world[d], i).race_finished[i]]
    /\ UNCHANGED <<protocol_state, local_input_buffer, remote_input_buffer,
                   remote_car, tx_input, tx_state, remote_stored>>

\* physics_start_race(world)
PhysicsStartRace(d) ==
    /\ world' = [world EXCEPT ![d] = physics_start_race(@)]
    /\ last' = [Call("physics_start_race", d) EXCEPT !.before = world[d]]
    /\ UNCHANGED <<protocol_state, local_input_buffer, remote_input_buffer,
                   remote_car, tx_input, tx_state, remote_stored>>

\* physics_reset_race(world)
PhysicsResetRace(d) ==
    /\ world' = [world EXCEPT ![d] = physics_reset_race(@)]
    /\ last' = [Call("physics_reset_race", d) EXCEPT !.before = world[d]]
    /\ UNCHANGED <<protocol_state, local_input_buffer, remote_input_buffer,
                   remote_car, tx_input, tx_state, remote_stored>>

\* ---------------------------------------------------------------------------
\* Inputs
\* ---------------------------------------------------------------------------
\* readings of esp_timer_get_time() / 1000
Times == {40, 70000}

\* an input packet as a peer with player id id sends it for frame: the
\* steering differs from frame to frame
WireInput(id, frame) ==
    LET body == [player_id |-> id, throttle |-> 100, brake |-> 0,
                 steering |-> LinkSteering(frame), buttons |-> 1,
                 frame_number |-> frame, timestamp |-> 17, checksum |-> 0]
    IN  [body EXCEPT !.checksum = InputChecksum(body)]

\* a packet whose checksum field was damaged on the way
DamagedChecksum(p) == [p EXCEPT !.checksum = (@ + 1) % U16]

\* the frames a remote packet is tried with: around both ends of the window
\* of the remote buffer, and around its newest sample
RemoteFrames(buf) ==
    {f \in {buf.start_frame - 1, buf.start_frame,
            buf.start_frame + buf.count, buf.start_frame + buf.count + 1,
            buf.start_frame + PROTOCOL_INPUT_BUFFER_SIZE - 1,
            buf.start_frame + PROTOCOL_INPUT_BUFFER_SIZE} : f >= 0}

\* the input packets the link may hand to device d: sound ones from the
\* expected peer, a damaged one, and one from a third player
NetInputPackets(d) ==
    LET st == protocol_state[d]
        buf == remote_input_buffer[d]
        next == buf.start_frame + buf.count
    IN  {WireInput(st.remote_player_id, f) : f \in RemoteFrames(buf)}
          \cup {DamagedChecksum(WireInput(st.remote_player_id, next)),
                WireInput(st.remote_player_id + 2, next)}

\* a game-state packet as a peer with player id id sends it
WireGameState(id, car, frame, index) ==
    LET body == [game_state |-> 0, player_id |-> id, frame_number |-> frame,
                 car_position_x |-> car.position.x, car_position_y |-> car.position.y,
                 car_velocity_x |-> car.velocity.x, car_velocity_y |-> car.velocity.y,
                 car_heading |-> car.heading,
                 checkpoint_index |-> index, lap_count |-> 1, race_finished |-> 0,
                 timestamp |-> 30, checksum |-> 0]
    IN  [body EXCEPT !.checksum = GameStateChecksum(body)]

\* the game-state packets the link may hand to device d: a sound one from the
\* expected peer, a damaged one, and a sound and a damaged one from a third
\* player
NetGameStatePackets(d) ==
    LET st == protocol_state[d]
        sound == WireGameState(st.remote_player_id, LinkCar, 5, 1)
        foreign == WireGameState(st.remote_player_id + 2, LinkCar, 5, 1)
    IN  {sound, DamagedChecksum(sound), foreign, DamagedChecksum(foreign)}

\* the frames protocol_store_local_input is tried with
LocalFrames(d) ==
    LET buf == local_input_buffer[d]
    IN  {f \in {protocol_state[d].current_frame, buf.start_frame - 1,
                buf.start_frame + PROTOCOL_INPUT_BUFFER_SIZE - 1,
                buf.start_frame + PROTOCOL_INPUT_BUFFER_SIZE} : f >= 0}

\* the frames protocol_predict_remote_input is tried with
PredictFrames(d) ==
    LET buf == remote_input_buffer[d]
    IN  {f \in {buf.start_frame - 1, buf.start_frame,
                buf.start_frame + buf.count - 1, buf.start_frame + buf.count,
                buf.start_frame + buf.count + 3} : f >= 0}

LocalInput == CHOOSE i \in InputStates : i.throttle = 100

\* ---------------------------------------------------------------------------
\* Specification Spec: device A, the operations of protocol.c on its tracker
\* and its buffers, and a link that hands it packets, sound or not
\* ---------------------------------------------------------------------------
\* the bounds on the calls of a run
MayCall(d) ==
    /\ ops < MaxOps
    /\ \/ protocol_state[d].current_frame < EarlyFrames
       \/ protocol_state[d].current_frame >= MaxFrame - LateFrames
MayAdvance(d) == protocol_state[d].current_frame < MaxFrame

Next ==
    \/ MayCall("A") /\ ops' = ops + 1 /\ UNCHANGED peripherals /\ \E h \in BOOLEAN : ProtocolInit("A", h)
    \/ MayCall("A") /\ ops' = ops + 1 /\ UNCHANGED peripherals /\ ProtocolReset("A")
    \/ MayCall("A") /\ ops' = ops + 1 /\ UNCHANGED peripherals
         /\ \E c \in BOOLEAN : ProtocolHandleConnection("A", c)
    \/ MayAdvance("A") /\ ops' = ops /\ UNCHANGED peripherals /\ ProtocolAdvanceFrame("A")
    \/ MayCall("A") /\ ops' = ops + 1 /\ UNCHANGED peripherals
         /\ \E p \in NetInputPackets("A") : ProtocolUnpackInput("A", p)
    \/ MayCall("A") /\ ops' = ops + 1 /\ UNCHANGED peripherals
         /\ \E p \in NetGameStatePackets("A") : ProtocolUnpackGameState("A", p, 40)
    \/ MayCall("A") /\ ops' = ops + 1 /\ UNCHANGED peripherals
         /\ \E f \in LocalFrames("A") : ProtocolStoreLocalInput("A", LocalInput, f, 40)
    \/ MayCall("A") /\ ops' = ops + 1 /\ UNCHANGED peripherals
         /\ \E f \in PredictFrames("A") : ProtocolPredictRemoteInput("A", f)

Spec == Init /\ [][Next]_vars

\* ---------------------------------------------------------------------------
\* Specification SpecPeers: devices A and B, each after protocol_init with a
\* role of its own, and a link that hands each the packet its peer packed
\* last, unmodified
\* ---------------------------------------------------------------------------
InitPeers ==
    /\ protocol_state \in [Devices -> {InitialisedState(h) : h \in BOOLEAN}]
    /\ local_input_buffer = [d \in Devices |-> ZeroInputBuffer]
    /\ remote_input_buffer = [d \in Devices |-> ZeroInputBuffer]
    /\ remote_car = [d \in Devices |-> ZeroCar]
    /\ world = [d \in Devices |-> InitWorld]
    /\ tx_input = [d \in Devices |-> [packet |-> ZeroInputPacket, input |-> ZeroInputState]]
    /\ tx_state = [d \in Devices |-> [packet |-> ZeroGameStatePacket, car |-> ZeroCar]]
    /\ remote_stored = [d \in Devices |-> {}]
    /\ last = NoCall
    /\ ops = 0
    /\ InitPeripherals

\* the peer of d has packed an input packet / a game-state packet
PeerSentInput(d) == tx_input[Peer(d)].packet # ZeroInputPacket
PeerSentGameState(d) == tx_state[Peer(d)].packet # ZeroGameStatePacket

NextPeers ==
    \E d \in Devices :
        \/ protocol_state[d].current_frame < MaxPeerFrame /\ ops' = ops /\ UNCHANGED peripherals
             /\ ProtocolAdvanceFrame(d)
        \/ ops < MaxOps /\ ops' = ops + 1 /\ UNCHANGED peripherals
             /\ \E i \in InputStates : ProtocolPackInput(d, i, 40)
        \/ ops < MaxOps /\ ops' = ops + 1 /\ UNCHANGED peripherals
             /\ \E c \in Cars : ProtocolPackGameState(d, c, 40)
        \/ ops < MaxOps /\ ops' = ops + 1 /\ UNCHANGED peripherals /\ PeerSentInput(d)
             /\ ProtocolUnpackInput(d, tx_input[Peer(d)].packet)
        \/ ops < MaxOps /\ ops' = ops + 1 /\ UNCHANGED peripherals /\ PeerSentGameState(d)
             /\ \E now \in Times :
                    ProtocolUnpackGameState(d, tx_state[Peer(d)].packet, now)

SpecPeers == InitPeers /\ [][NextPeers]_vars

\* ---------------------------------------------------------------------------
\* Two devices and a link that damages one byte of the packet just sent: the
\* game loop sends a packet right after packing it (game_update_racing)
\* ---------------------------------------------------------------------------
JustSentInput(d) == last.op = "pack_input" /\ last.dev = Peer(d)
JustSentGameState(d) == last.op = "pack_game_state" /\ last.dev = Peer(d)

NextLink ==
    \E d \in Devices :
        \/ protocol_state[d].current_frame < MaxPeerFrame /\ ops' = ops /\ UNCHANGED peripherals
             /\ ProtocolAdvanceFrame(d)
        \/ ops < MaxOps /\ ops' = ops + 1 /\ UNCHANGED peripherals
             /\ \E i \in InputStates : ProtocolPackInput(d, i, 40)
        \/ ops < MaxOps /\ ops' = ops + 1 /\ UNCHANGED peripherals
             /\ \E c \in Cars : ProtocolPackGameState(d, c, 40)
        \/ JustSentInput(d) /\ ops' = ops /\ UNCHANGED peripherals
             /\ \E q \in CorruptedInputPackets(tx_input[Peer(d)].packet) :
                    ProtocolUnpackInput(d, q)
        \/ JustSentGameState(d) /\ ops' = ops /\ UNCHANGED peripherals
             /\ \E q \in CorruptedGameStatePackets(tx_state[Peer(d)].packet) :
                    ProtocolUnpackGameState(d, q, 40)

SpecLink == InitPeers /\ [][NextLink]_vars

\* ---------------------------------------------------------------------------
\* Specification SpecRace: the race world of device A after game_loop_init,
\* under the operations of physics.c and game-state packets of the peer
\* ---------------------------------------------------------------------------
\* where physics_reset_car puts car 0 and car 1: in the first gate (car 1
\* half a unit beside its centre), beyond the wall, and further from the
\* origin than the minimum car distance
BeyondWall == Units(5, 0)
FarAway == Units(150, 0)
GateSide == [x |-> INT_TO_FIXED16(2), y |-> FIXED16_ONE \div 2]
Places(i) == IF i = 0 THEN {Gate0, BeyondWall} ELSE {GateSide, FarAway}

\* the forces physics_apply_force is called with: along the wall and
\* toward it, along the wall and away from it
Forces == {Units(30000, 30000), Units(-30000, 30000)}

\* sound game-state packets of the peer, for checkpoint 0 and checkpoint 1
RacePackets(d) ==
    {WireGameState(protocol_state[d].remote_player_id, LinkCar, 5, k) : k \in 0..1}

InitRace ==
    /\ protocol_state = [d \in Devices |-> InitialisedState(FALSE)]
    /\ local_input_buffer = [d \in Devices |-> ZeroInputBuffer]
    /\ remote_input_buffer = [d \in Devices |-> ZeroInputBuffer]
    /\ remote_car = [d \in Devices |-> ZeroCar]
    /\ \E track \in Tracks, c \in CarConfigs :
           world = [d \in Devices |-> RaceWorld(track, c)]
    /\ tx_input = [d \in Devices |-> [packet |-> ZeroInputPacket, input |-> ZeroInputState]]
    /\ tx_state = [d \in Devices |-> [packet |-> ZeroGameStatePacket, car |-> ZeroCar]]
    /\ remote_stored = [d \in Devices |-> {}]
    /\ last = NoCall
    /\ ops = 0
    /\ InitPeripherals

\* a run makes MaxRaceOps calls, and none after the program was stopped
MayRace == ~last.fault /\ ops < MaxRaceOps /\ ops' = ops + 1 /\ UNCHANGED peripherals

NextRace ==
    \/ MayRace /\ \E z \in DivideByZeroOutcomes : PhysicsUpdate("A", z)
    \/ MayRace /\ \E i \in CarIndices : \E position \in Places(i) :
                      PhysicsResetCar("A", i, position)
    \/ MayRace /\ \E force \in Forces, z \in DivideByZeroOutcomes :
                      PhysicsApplyForce("A", 0, force, z)
    \/ MayRace /\ \E z \in DivideByZeroOutcomes :
                      PhysicsApplyTorque("A", 0, FIXED16_ONE, z)
    \/ MayRace /\ \E i \in CarIndices : PhysicsCheckRaceFinished("A", i)
    \/ MayRace /\ PhysicsStartRace("A")
    \/ MayRace /\ PhysicsResetRace("A")
    \/ MayRace /\ \E p \in RacePackets("A") : ProtocolUnpackGameState("A", p, 40)

SpecRace == InitRace /\ [][NextRace]_vars

\* ---------------------------------------------------------------------------
\* The game loop in the racing state (game_loop.c)
\* ---------------------------------------------------------------------------
PHYSICS_MAX_SPEED == 1310720
PHYSICS_ACCELERATION == 98304
PHYSICS_BRAKING_FORCE == 196608
PHYSICS_TURN_RADIUS == 327680

\* physics_handle_input after the clamping and the conversion to fixed point;
\* forward is the vector {fixed_cos(heading), fixed_sin(heading)}
physics_handle_input(car, forward, fp_throttle, fp_brake, fp_steering, z) ==
    LET engine_force == fixed_mul(PHYSICS_ACCELERATION, fp_throttle)
        brake_force == fixed_mul(PHYSICS_BRAKING_FORCE, fp_brake)
        speed_factor ==
            fixed_div(PHYSICS_MAX_SPEED, car.speed + PHYSICS_MAX_SPEED + FIXED16_ONE)
        steering_angle ==
            fixed_mul(fixed_mul(PHYSICS_TURN_RADIUS, fp_steering), speed_factor)
        engine_force_vec == vec2_scale(forward, engine_force)
        brake_force_vec == vec2_scale(forward, -brake_force)
    IN  physics_apply_torque(
            physics_apply_force(physics_apply_force(car, engine_force_vec, z),
                                brake_force_vec, z),
            steering_angle, z)

\* what input_get_throttle, input_get_brake and input_get_steering return in
\* one iteration, clamped and in fixed point: idle, full throttle, full
\* throttle steering right, full brake
RacingInputs ==
    {[throttle |-> 0, brake |-> 0, steering |-> 0],
     [throttle |-> FIXED16_ONE, brake |-> 0, steering |-> 0],
     [throttle |-> FIXED16_ONE, brake |-> 0, steering |-> FIXED16_ONE],
     [throttle |-> 0, brake |-> FIXED16_ONE, steering |-> 0]}

\* the heading vectors the sine table yields: along x, along y
Forwards == {[x |-> FIXED16_ONE, y |-> 0], [x |-> 0, y |-> FIXED16_ONE]}

\* what one iteration finds around it: 16 ms passed since the last
\* physics_update (due), physics_world.car_count > 0 (has_cars),
\* ble_is_connected() (connected)
Surroundings ==
    {[due |-> TRUE, has_cars |-> TRUE, connected |-> TRUE],
     [due |-> TRUE, has_cars |-> TRUE, connected |-> FALSE],
     [due |-> FALSE, has_cars |-> TRUE, connected |-> TRUE],
     [due |-> TRUE, has_cars |-> FALSE, connected |-> TRUE]}

\* a call of the iteration: the function and the car it was made for
Made(fn, car_index) == [fn |-> fn, car |-> car_index]

\* the calls one iteration of the loop makes in the racing state, in order
CallsOfIteration(around) ==
    (IF around.due THEN <<Made("physics_update", 0)>> ELSE <<>>)
    \o (IF around.has_cars THEN <<Made("physics_handle_input", 0)>> ELSE <<>>)
    \o <<Made("physics_check_race_finished", 0)>>
    \o (IF around.connected /\ around.has_cars
        THEN <<Made("protocol_pack_game_state", 0)>> ELSE <<>>)

\* one iteration of the loop of game_loop_run with current_state ==
\* GAME_STATE_RACING and ESC not pressed: physics_update when it is due, then
\* game_update_racing
GameLoopIteration(d, in, forward, around, z) ==
    /\ ~world[d].race_finished[0]
    /\ \E moved \in {IF around.due THEN CarsUpdated(world[d], z) ELSE world[d]} :
       \E walled \in {IF around.due THEN WallsResolved(moved) ELSE moved} :
       \E divided \in {\/ around.due /\ DividesByZero(world[d], walled)
                       \/ around.has_cars /\ world[d].cars[0].mass = 0} :
       \E ticked \in {IF around.due /\ ~(divided /\ z.trap)
                      THEN CarsResolved(walled, z) ELSE walled} :
       \E steered \in {IF around.has_cars /\ ~(divided /\ z.trap)
                       THEN [ticked EXCEPT !.cars[0] =
                                physics_handle_input(@, forward, in.throttle,
                                                     in.brake, in.steering, z)]
                       ELSE ticked} :
       \E checked \in {physics_check_race_finished(steered, 0)} :
           /\ around.due => SumsInRange(world[d], moved, walled)
           /\ world' = [world EXCEPT ![d] =
                  IF divided /\ z.trap THEN @ ELSE checked]
           /\ tx_state' = [tx_state EXCEPT ![d] =
                  IF around.connected /\ around.has_cars /\ ~(divided /\ z.trap)
                  THEN [packet |-> protocol_pack_game_state(
                                       protocol_state[d], checked,
                                       checked.cars[0], 40),
                        car |-> checked.cars[0]]
                  ELSE @]
           /\ last' = [Call("game_loop_iteration", d) EXCEPT
                  !.before = world[d], !.moved = moved, !.walled = walled,
                  !.divided = divided, !.fault = divided /\ z.trap,
                  !.calls = IF divided /\ z.trap THEN <<>>
                            ELSE CallsOfIteration(around)]
    /\ UNCHANGED <<protocol_state, local_input_buffer, remote_input_buffer,
                   remote_car, tx_input, remote_stored>>

\* the input packets of the peer that arrive during the race
RacingInputPackets(d) ==
    {p \in NetInputPackets(d) : p.player_id = protocol_state[d].remote_player_id}

\* a run makes MaxLoopIterations steps, and none after the program was stopped
MayLoop == ~last.fault /\ ops < MaxLoopIterations /\ ops' = ops + 1 /\ UNCHANGED peripherals

NextLoop ==
    \/ MayLoop /\ \E in \in RacingInputs, forward \in Forwards,
                     around \in Surroundings, z \in DivideByZeroOutcomes :
                      GameLoopIteration("A", in, forward, around, z)
    \/ MayLoop /\ \E p \in RacingInputPackets("A") : ProtocolUnpackInput("A", p)
    \/ MayLoop /\ \E p \in RacePackets("A") : ProtocolUnpackGameState("A", p, 40)

SpecLoop == InitRace /\ [][NextLoop]_vars

\* ---------------------------------------------------------------------------
\* The pure functions: protocol_should_rollback, fixed_div, fixed_mul
\* ---------------------------------------------------------------------------
\* (float)x for an int32_t x >= 0, as a multiple of 1: the nearest value with
\* 24 significant bits, ties to even (below 2^24 every x is a float)
RECURSIVE FloatSpacing(_, _)
FloatSpacing(x, spacing) ==
    IF x \div spacing < 16777216 THEN spacing ELSE FloatSpacing(x, 2 * spacing)
FloatOfInt(x) ==
    LET spacing == FloatSpacing(x, 1)
        q == x \div spacing
        r == x % spacing
    IN  IF 2 * r > spacing \/ (2 * r = spacing /\ q % 2 = 1)
        THEN (q + 1) * spacing ELSE q * spacing

\* heading_error_f > 0.1f: 0.1f * 65536 lies between 6553 and 6554
HeadingTolerance == 6553

\* protocol_should_rollback; threshold is the float argument times 65536, and
\* FIXED16_TO_FLOAT divides the float of the raw value by 65536 exactly. Where
\* the sum of the two squares leaves int32_t the behaviour is undefined and
\* the call returns undefined, either truth value
protocol_should_rollback(predicted, actual, threshold, undefined) ==
    LET dx == predicted.position.x - actual.position.x
        dy == predicted.position.y - actual.position.y
        difference == predicted.heading - actual.heading
        heading_error == IF difference < 0 THEN -difference ELSE difference
    IN  IF ~SumInRange(fixed_mul(dx, dx), fixed_mul(dy, dy)) THEN undefined
        ELSE \/ FloatOfInt(fixed_sqrt(fixed_mul(dx, dx) + fixed_mul(dy, dy)))
                   > threshold
             \/ FloatOfInt(heading_error) > HeadingTolerance

\* protocol_should_rollback(frame, predicted, actual, threshold)
ProtocolShouldRollback(d, predicted, actual, threshold, undefined) ==
    /\ last' = [Call("should_rollback", d) EXCEPT
           !.args = <<predicted, actual, threshold>>,
           !.ok = protocol_should_rollback(predicted, actual, threshold, undefined)]
    /\ UNCHANGED <<protocol_state, local_input_buffer, remote_input_buffer,
                   remote_car, world, tx_input, tx_state, remote_stored>>

\* fixed_div(a, b): with b = 0 the division is executed all the same
FixedDiv(d, a, b, z) ==
    /\ last' = [Call("fixed_div", d) EXCEPT
           !.args = <<a, b>>, !.divided = (b = 0), !.fault = (b = 0 /\ z.trap),
           !.result = Quotient(a, b, z)]
    /\ UNCHANGED <<protocol_state, local_input_buffer, remote_input_buffer,
                   remote_car, world, tx_input, tx_state, remote_stored>>

\* fixed_mul(a, b)
FixedMul(d, a, b) ==
    /\ last' = [Call("fixed_mul", d) EXCEPT
           !.args = <<a, b>>, !.result = fixed_mul(a, b)]
    /\ UNCHANGED <<protocol_state, local_input_buffer, remote_input_buffer,
                   remote_car, world, tx_input, tx_state, remote_stored>>

\* a car at position (x, y), given in sixteenths of a unit, with a heading
CarAt(x, y, heading) ==
    [ZeroCar EXCEPT !.position = [x |-> x * (FIXED16_ONE \div 16),
                                  y |-> y * (FIXED16_ONE \div 16)],
                    !.heading = heading]

\* the predicted cars: at the origin, 3 and 4 units along the axes, a
\* sixteenth off, 200 units off; headings at and around the tolerance
PredictedCars ==
    {CarAt(x, y, heading) :
        x \in {0, 1, 48, 3200}, y \in {0, 64, 3200},
        heading \in {0, HeadingTolerance, HeadingTolerance + 1,
                     -(HeadingTolerance + 1)}}

\* the actual cars
ActualCars == {CarAt(0, 0, 0), CarAt(16, 0, 0)}

\* the thresholds: 0.0625f, 0.5f, 5.0f
Thresholds == {FIXED16_ONE \div 16, FIXED16_ONE \div 2, 5 * FIXED16_ONE}

\* the operands of fixed_mul and fixed_div
Operands ==
    {0, 1, -1, 3, FIXED16_ONE, -FIXED16_ONE, FIXED16_ONE \div 2,
     3 * FIXED16_ONE, -7 * FIXED16_ONE, 100 * FIXED16_ONE, 200 * FIXED16_ONE,
     -200 * FIXED16_ONE, I32Max, -I32Max}

\* a run is one call of one function
MayApply == ops = 0 /\ ops' = 1 /\ UNCHANGED peripherals

NextMath ==
    \/ MayApply /\ \E predicted \in PredictedCars, actual \in ActualCars,
                      threshold \in Thresholds, undefined \in BOOLEAN :
                       ProtocolShouldRollback("A", predicted, actual, threshold,
                                              undefined)
    \/ MayApply /\ \E a \in Operands, b \in Operands, z \in DivideByZeroOutcomes :
                       FixedDiv("A", a, b, z)
    \/ MayApply /\ \E a \in Operands, b \in Operands : FixedMul("A", a, b)

SpecMath == Init /\ [][NextMath]_vars

\* ---------------------------------------------------------------------------
\* One device and every operation of protocol.c on it
\* ---------------------------------------------------------------------------
\* a run makes MaxOps calls apart from protocol_advance_frame
MayOperate == ops < MaxOps /\ ops' = ops + 1 /\ UNCHANGED peripherals

\* the cars protocol_should_rollback compares in a race: a car a sixteenth of
\* a unit off the actual one, with a heading beyond the tolerance or not
RollbackCars ==
    {CarAt(1, 0, heading) : heading \in {0, HeadingTolerance + 1}}

\* the time in ms on the clock of the receiver when a game-state packet
\* arrives: before and after the time on the sender's clock that the packet
\* carries, and after that clock passed 65536 ms
ArrivalTimes == {10, 40, 70000}

\* the game-state packets that reach device d in SpecFrames: those of the
\* link, and a sound one of an earlier frame that the link delayed
FramedGameStatePackets(d) ==
    NetGameStatePackets(d)
        \cup {WireGameState(protocol_state[d].remote_player_id, LinkCar, 3, 0)}

NextFrames ==
    \/ MayOperate /\ \E h \in BOOLEAN : ProtocolInit("A", h)
    \/ MayOperate /\ ProtocolReset("A")
    \/ MayOperate /\ \E c \in BOOLEAN : ProtocolHandleConnection("A", c)
    \/ protocol_state["A"].current_frame < MaxPeerFrame /\ ops' = ops /\ UNCHANGED peripherals
         /\ ProtocolAdvanceFrame("A")
    \/ MayOperate /\ ProtocolPackInput("A", LocalInput, 40)
    \/ MayOperate /\ ProtocolPackGameState("A", LinkCar, 40)
    \/ MayOperate /\ \E p \in NetInputPackets("A") : ProtocolUnpackInput("A", p)
    \/ MayOperate /\ \E p \in FramedGameStatePackets("A"), now \in ArrivalTimes :
                        ProtocolUnpackGameState("A", p, now)
    \/ MayOperate /\ \E f \in LocalFrames("A") :
                        ProtocolStoreLocalInput("A", LocalInput, f, 40)
    \/ MayOperate /\ \E f \in PredictFrames("A") :
                        ProtocolPredictRemoteInput("A", f)
    \/ MayOperate /\ \E predicted \in RollbackCars :
                        ProtocolShouldRollback("A", predicted, CarAt(0, 0, 0),
                                               FIXED16_ONE \div 2, FALSE)

SpecFrames == Init /\ [][NextFrames]_vars

\* ---------------------------------------------------------------------------
\* The hand-over of inbound packets: the NimBLE host task and the game loop
\* ---------------------------------------------------------------------------
\* ble_gatt_char_access calls the registered callback with the bytes of an
\* inbound packet on the host task; there is no queue and no lock between
\* that call and the statics of protocol.c. The delivery is modelled as
\* protocol_unpack_input run on the host task in two parts, the tests and the
\* slot index first and the two writes afterwards, with calls of the game loop
\* in between. While a delivery is in progress, last keeps the packet, the
\* index, the outcome of the window test (ok), the state it began in (args)
\* and the calls the game loop made since (calls).
MaxInterleaved == 2

\* the frames of the delivered packets: inside the window before and after
\* protocol_advance_frame moves it
DeliveredFrames == {20, 40}

\* the tracker and the two input buffers of device d
HandoffState(d) ==
    [tracker |-> protocol_state[d], local |-> local_input_buffer[d],
     remote |-> remote_input_buffer[d]]

\* protocol_unpack_input as one step
AfterUnpack(s, p) ==
    [s EXCEPT !.remote = IF InputAccepted(s.tracker, p)
                         THEN StoreInput(@, p.frame_number, p) ELSE @]

\* protocol_advance_frame as one step
AfterAdvance(s) ==
    LET frame == s.tracker.current_frame + 1
    IN  [tracker |-> [s.tracker EXCEPT !.current_frame = frame],
         local |-> CompactBuffer(s.local, frame),
         remote |-> CompactBuffer(s.remote, frame)]

\* protocol_store_local_input(input, current_frame) as one step
AfterStore(s) ==
    [s EXCEPT !.local = StoreInput(@, s.tracker.current_frame,
                                   protocol_pack_input(s.tracker, LocalInput, 40))]

\* a call of the game loop as one step; protocol_predict_remote_input writes
\* only the packet of its caller
AfterCall(s, call) ==
    IF call.fn = "protocol_advance_frame" THEN AfterAdvance(s)
    ELSE IF call.fn = "protocol_store_local_input" THEN AfterStore(s)
    ELSE s

RECURSIVE AfterCalls(_, _)
AfterCalls(s, calls) ==
    IF calls = <<>> THEN s ELSE AfterCalls(AfterCall(s, Head(calls)), Tail(calls))

\* a delivery is in progress
Delivering == last.op = "delivering"

\* the host task begins protocol_unpack_input(p): the player id and checksum
\* tests, buffer_index and the window test
DeliveryBegins(d, p) ==
    /\ ~Delivering
    /\ last' = [Call("delivering", d) EXCEPT
           !.ipkt = p, !.frame = p.frame_number,
           !.index = BufferIndex(remote_input_buffer[d], p.frame_number),
           !.ok = /\ InputAccepted(protocol_state[d], p)
                  /\ InWindow(remote_input_buffer[d], p.frame_number),
           !.args = <<HandoffState(d)>>]
    /\ UNCHANGED <<protocol_state, local_input_buffer, remote_input_buffer,
                   remote_car, world, tx_input, tx_state, remote_stored>>

\* the host task ends protocol_unpack_input: inputs[buffer_index] = *packet
\* and count = MAX(count, frame_number - start_frame + 1)
DeliveryEnds(d) ==
    /\ Delivering
    /\ remote_input_buffer' = [remote_input_buffer EXCEPT ![d] =
           IF last.ok
           THEN [@ EXCEPT !.inputs[last.index] = last.ipkt,
                          !.count = MAX(@, last.frame - remote_input_buffer[d].start_frame + 1)]
           ELSE @]
    /\ last' = [last EXCEPT !.op = "delivered"]
    /\ UNCHANGED <<protocol_state, local_input_buffer, remote_car, world,
                   tx_input, tx_state, remote_stored>>

\* the game loop makes a call; during a delivery the call is added to the
\* calls the delivery overlaps
GameLoopCalls(d, fn) ==
    \E after \in {AfterCall(HandoffState(d), Made(fn, 0))} :
        /\ Delivering => Len(last.calls) < MaxInterleaved
        /\ protocol_state' = [protocol_state EXCEPT ![d] = after.tracker]
        /\ local_input_buffer' = [local_input_buffer EXCEPT ![d] = after.local]
        /\ remote_input_buffer' = [remote_input_buffer EXCEPT ![d] = after.remote]
        /\ last' = IF Delivering
                   THEN [last EXCEPT !.calls = Append(@, Made(fn, 0))]
                   ELSE [Call(fn, d) EXCEPT
                            !.frame = protocol_state[d].current_frame,
                            !.predicted =
                                IF fn = "protocol_predict_remote_input"
                                THEN protocol_predict_remote_input(
                                         remote_input_buffer[d],
                                         protocol_state[d].current_frame, @)
                                ELSE @]
        /\ UNCHANGED <<remote_car, world, tx_input, tx_state, remote_stored>>

NextHandoff ==
    \/ MayOperate /\ \E f \in DeliveredFrames :
           DeliveryBegins("A", WireInput(protocol_state["A"].remote_player_id, f))
    \/ ops' = ops /\ UNCHANGED peripherals /\ DeliveryEnds("A")
    \/ protocol_state["A"].current_frame < MaxFrame /\ ops' = ops /\ UNCHANGED peripherals
         /\ GameLoopCalls("A", "protocol_advance_frame")
    \/ MayOperate /\ GameLoopCalls("A", "protocol_store_local_input")
    \/ MayOperate /\ GameLoopCalls("A", "protocol_predict_remote_input")

SpecHandoff == Init /\ [][NextHandoff]_vars

\* ---------------------------------------------------------------------------
\* The tick of the frame loop: store the local input, then advance the frame
\* ---------------------------------------------------------------------------
MaxTicks == 70

\* the tick is between its two calls
Stored == last.op = "store_local_input"

NextTicks ==
    \/ ~Stored /\ protocol_state["A"].current_frame < MaxTicks /\ ops' = ops /\ UNCHANGED peripherals
         /\ ProtocolStoreLocalInput("A", LocalInput,
                                    protocol_state["A"].current_frame, 40)
    \/ Stored /\ ops' = ops /\ UNCHANGED peripherals /\ ProtocolAdvanceFrame("A")

SpecTicks == InitPeers /\ [][NextTicks]_vars

\* ---------------------------------------------------------------------------
\* The transport: ble.c, and the lobby that registers its handler with it.
\* The NimBLE host is the environment: it advertises once ble_gap_adv_start
\* returned 0, it raises a connect event for an advertising device, a
\* disconnect event for a linked one, and it hands over the writes of the
\* linked peer to the characteristics that permit a write.
\* ---------------------------------------------------------------------------
\* ble_is_connected()
ble_is_connected ==
    ble_state = "BLE_STATE_CONNECTED"
        /\ ble_connection_handle # BLE_HS_CONN_HANDLE_NONE

\* ble_validate_connection()
ble_validate_connection ==
    IF ble_connection_handle = BLE_HS_CONN_HANDLE_NONE THEN FALSE
    ELSE IF ble_state # "BLE_STATE_CONNECTED" THEN FALSE
    ELSE TRUE

\* the lobby's current_state and current_session.player_count
Lobby == [current_state |-> current_state, player_count |-> player_count]

\* handle_ble_event(event_type, data, length) on the lobby; the device list
\* that the cases 0 and 1 edit is left out
handle_ble_event(lobby, event_type, length) ==
    CASE event_type = 0 -> lobby
      [] event_type = 1 -> lobby
      [] event_type = 2 -> [lobby EXCEPT !.current_state = "LOBBY_STATE_CONNECTED"]
      [] event_type = 3 ->
             [lobby EXCEPT !.current_state = "LOBBY_STATE_IDLE", !.player_count = 1]
      [] OTHER -> lobby

\* if (ble_event_cb) ble_event_cb(event_type, data, length)
CallEventCb(lobby, event_type, length) ==
    IF ble_event_cb = "NULL" THEN lobby
    ELSE handle_ble_event(lobby, event_type, length)

\* the calls of the callback a step made
EventCbCalls(event_type, length) ==
    IF ble_event_cb = "NULL" THEN <<>> ELSE << <<event_type, length>> >>

\* ble_gap_adv_start returns 0 and the host advertises, or it returns an
\* error; a host that advertises already starts no second procedure
AdvStartReturns == IF gap.advertising THEN {2} ELSE {0, 6}
\* ble_gap_adv_stop returns 0 when it stopped the advertising procedure
AdvStopReturns == IF gap.advertising THEN {0} ELSE {2}

\* ble_start_advertising(): the state, the host and the value returned, after
\* the calls that set the fields returned fields_rc and ble_gap_adv_start rc
ble_start_advertising(fields_rc, rc) ==
    IF fields_rc # 0
        THEN [ble_state |-> ble_state, gap |-> gap, ret |-> "ESP_FAIL"]
    ELSE IF rc # 0
        THEN [ble_state |-> ble_state, gap |-> gap, ret |-> "ESP_FAIL"]
    ELSE [ble_state |-> "BLE_STATE_ADVERTISING",
          gap |-> [gap EXCEPT !.advertising = TRUE], ret |-> "ESP_OK"]

\* ble_stop_advertising(), from state st, ble_gap_adv_stop returning rc
ble_stop_advertising(st, rc) ==
    IF rc # 0
        THEN [ble_state |-> st, gap |-> gap, ret |-> "ESP_FAIL"]
    ELSE [ble_state |-> "BLE_STATE_IDLE",
          gap |-> [gap EXCEPT !.advertising = FALSE], ret |-> "ESP_OK"]

\* lobby_init(config), config not NULL, ble_init returning ret
LobbyInit(ret) ==
    /\ ble_event_cb' = "handle_ble_event"
    /\ player_count' = 0
    /\ current_state' = IF ret = "ESP_OK" THEN "LOBBY_STATE_IDLE" ELSE current_state
    /\ last' = [Call("lobby_init", "A") EXCEPT !.report = ret]
    /\ UNCHANGED <<core, ble_state, ble_connection_handle, gap>>

\* lobby_start_hosting(), the lobby configured as host
LobbyStartHosting(fields_rc, rc) ==
    IF current_state # "LOBBY_STATE_IDLE"
    THEN /\ last' = [Call("lobby_start_hosting", "A")
                       EXCEPT !.report = "ESP_ERR_INVALID_STATE"]
         /\ UNCHANGED <<core, transport>>
    ELSE LET r == ble_start_advertising(fields_rc, rc)
         IN  /\ ble_state' = r.ble_state
             /\ gap' = r.gap
             /\ current_state' =
                    IF r.ret = "ESP_OK" THEN "LOBBY_STATE_HOSTING" ELSE current_state
             /\ last' = [Call("lobby_start_hosting", "A") EXCEPT !.report = r.ret]
             /\ UNCHANGED <<core, ble_connection_handle, ble_event_cb, player_count>>

\* lobby_stop_hosting()
LobbyStopHosting(rc) ==
    IF current_state # "LOBBY_STATE_HOSTING"
    THEN /\ last' = [Call("lobby_stop_hosting", "A")
                       EXCEPT !.report = "ESP_ERR_INVALID_STATE"]
         /\ UNCHANGED <<core, transport>>
    ELSE LET r == ble_stop_advertising(ble_state, rc)
         IN  /\ ble_state' = r.ble_state
             /\ gap' = r.gap
             /\ current_state' =
                    IF r.ret = "ESP_OK" THEN "LOBBY_STATE_IDLE" ELSE current_state
             /\ last' = [Call("lobby_stop_hosting", "A") EXCEPT !.report = r.ret]
             /\ UNCHANGED <<core, ble_connection_handle, ble_event_cb, player_count>>

\* ble_start_advertising() called by the application
BleStartAdvertising(fields_rc, rc) ==
    LET r == ble_start_advertising(fields_rc, rc)
    IN  /\ ble_state' = r.ble_state
        /\ gap' = r.gap
        /\ last' = [Call("ble_start_advertising", "A") EXCEPT !.report = r.ret]
        /\ UNCHANGED <<core, ble_connection_handle, ble_event_cb, current_state,
                       player_count>>

\* ble_stop_advertising() called by the application
BleStopAdvertising(rc) ==
    LET r == ble_stop_advertising(ble_state, rc)
    IN  /\ ble_state' = r.ble_state
        /\ gap' = r.gap
        /\ last' = [Call("ble_stop_advertising", "A") EXCEPT !.report = r.ret]
        /\ UNCHANGED <<core, ble_connection_handle, ble_event_cb, current_state,
                       player_count>>

\* ble_start_scanning() and ble_stop_scanning(), ble_gap_disc and
\* ble_gap_disc_cancel returning rc
BleScanning(fn, rc) ==
    /\ last' = [Call(fn, "A") EXCEPT !.report = IF rc # 0 THEN "ESP_FAIL" ELSE "ESP_OK"]
    /\ UNCHANGED <<core, transport>>

\* ble_deinit(): it stops the advertising, ends the link and shuts the host
\* down
BleDeinit(rc) ==
    LET stopped == IF ble_state = "BLE_STATE_ADVERTISING"
                   THEN ble_stop_advertising(ble_state, rc)
                   ELSE [ble_state |-> ble_state, gap |-> gap, ret |-> "ESP_OK"]
    IN  /\ ble_state' = "BLE_STATE_IDLE"
        /\ gap' = [advertising |-> FALSE, connected |-> FALSE]
        /\ last' = [Call("ble_deinit", "A") EXCEPT !.report = stopped.ret]
        /\ UNCHANGED <<core, ble_connection_handle, ble_event_cb, current_state,
                       player_count>>

\* the body shared by ble_send_game_state(state) and ble_send_input(input):
\* arg is "NULL" or the packet, rc what ble_gatts_notify returns
BleSend(fn, arg, rc) ==
    LET ret == IF arg = "NULL" THEN "ESP_ERR_INVALID_ARG"
               ELSE IF ~ble_validate_connection THEN "ESP_ERR_INVALID_STATE"
               ELSE IF rc # 0 THEN "ESP_FAIL"
               ELSE "ESP_OK"
    IN  /\ last' = [Call(fn, "A") EXCEPT
                       !.report = ret,
                       !.args = <<arg>>,
                       !.ok = ret \in {"ESP_FAIL", "ESP_OK"}]
        /\ UNCHANGED <<core, transport>>

\* ble_send_game_state(state)
BleSendGameState(state, rc) == BleSend("ble_send_game_state", state, rc)

\* ble_send_input(input)
BleSendInput(input, rc) == BleSend("ble_send_input", input, rc)

\* the events of the host, with the status of a connect event
GapEvents ==
    {[type |-> "BLE_GAP_EVENT_CONNECT", status |-> s, conn_handle |-> 1] : s \in {0, 1}}
        \cup {[type |-> t, status |-> 0, conn_handle |-> 1] :
                  t \in {"BLE_GAP_EVENT_DISCONNECT", "BLE_GAP_EVENT_ADV_COMPLETE",
                         "BLE_GAP_EVENT_CONN_UPDATE"}}

\* the host raises event: a connect event ends an advertising procedure, with
\* a link when its status is 0; a disconnect event ends a link; a procedure
\* that advertises may complete; a link may have its parameters updated
Raises(event) ==
    CASE event.type = "BLE_GAP_EVENT_CONNECT" ->
             gap.advertising /\ (event.status = 0 => ~gap.connected)
      [] event.type = "BLE_GAP_EVENT_DISCONNECT" -> gap.connected
      [] event.type = "BLE_GAP_EVENT_ADV_COMPLETE" -> gap.advertising
      [] event.type = "BLE_GAP_EVENT_CONN_UPDATE" -> gap.connected

\* ble_gap_event(event, arg)
BleGapEvent(event) ==
    /\ Raises(event)
    /\ CASE event.type = "BLE_GAP_EVENT_CONNECT" /\ event.status = 0 ->
                /\ ble_state' = "BLE_STATE_CONNECTED"
                /\ ble_connection_handle' = event.conn_handle
                /\ gap' = [advertising |-> FALSE, connected |-> TRUE]
                /\ \E lobby \in {CallEventCb(Lobby, 0, 0)} :
                       /\ current_state' = lobby.current_state
                       /\ player_count' = lobby.player_count
                /\ last' = [Call("ble_gap_event", "A") EXCEPT
                               !.report = event.type, !.result = event.status,
                               !.calls = EventCbCalls(0, 0)]
         [] event.type = "BLE_GAP_EVENT_CONNECT" /\ event.status # 0 ->
                /\ ble_state' = "BLE_STATE_IDLE"
                /\ gap' = [gap EXCEPT !.advertising = FALSE]
                /\ last' = [Call("ble_gap_event", "A") EXCEPT
                               !.report = event.type, !.result = event.status]
                /\ UNCHANGED <<ble_connection_handle, current_state, player_count>>
         [] event.type = "BLE_GAP_EVENT_DISCONNECT" ->
                /\ ble_state' = "BLE_STATE_DISCONNECTED"
                /\ ble_connection_handle' = 65535
                /\ gap' = [gap EXCEPT !.connected = FALSE]
                /\ \E lobby \in {CallEventCb(Lobby, 1, 0)} :
                       /\ current_state' = lobby.current_state
                       /\ player_count' = lobby.player_count
                /\ last' = [Call("ble_gap_event", "A") EXCEPT
                               !.report = event.type,
                               !.calls = EventCbCalls(1, 0)]
         [] event.type = "BLE_GAP_EVENT_ADV_COMPLETE" ->
                /\ ble_state' = IF ble_state = "BLE_STATE_ADVERTISING"
                                THEN "BLE_STATE_IDLE" ELSE ble_state
                /\ gap' = [gap EXCEPT !.advertising = FALSE]
                /\ last' = [Call("ble_gap_event", "A") EXCEPT !.report = event.type]
                /\ UNCHANGED <<ble_connection_handle, current_state, player_count>>
         [] OTHER ->
                /\ last' = [Call("ble_gap_event", "A") EXCEPT !.report = event.type]
                /\ UNCHANGED <<ble_state, ble_connection_handle, gap, current_state,
                               player_count>>
    /\ UNCHANGED <<core, ble_event_cb>>

\* gatt_services: the characteristics, the flags of each, the event type its
\* write is reported with, and the size of its packet
Characteristics ==
    {[uuid |-> "BLE_GAME_STATE_CHAR_UUID", flags |-> {"READ", "NOTIFY"},
      event_type |-> 2, size |-> 33],
     [uuid |-> "BLE_INPUT_CHAR_UUID", flags |-> {"WRITE", "NOTIFY"},
      event_type |-> 3, size |-> 13],
     [uuid |-> "BLE_CONFIG_CHAR_UUID", flags |-> {"READ", "WRITE", "NOTIFY"},
      event_type |-> 4, size |-> 12]}

\* the accesses the host hands over: those the flags of the characteristic
\* permit, from a linked peer
Accesses ==
    {[chr |-> c, op |-> o, om_len |-> n] :
         c \in Characteristics, o \in {"READ", "WRITE"}, n \in {12, 13, 33}}
Permits(access) == gap.connected /\ access.op \in access.chr.flags

\* ble_gatt_char_access(conn_handle, attr_handle, ctxt, arg)
BleGattCharAccess(access) ==
    /\ Permits(access)
    /\ LET reported == access.op = "WRITE" /\ access.om_len = access.chr.size
           type == access.chr.event_type
       IN  /\ \E lobby \in {IF reported THEN CallEventCb(Lobby, type, access.om_len)
                            ELSE Lobby} :
                  /\ current_state' = lobby.current_state
                  /\ player_count' = lobby.player_count
           /\ last' = [Call("ble_gatt_char_access", "A") EXCEPT
                          !.report = access.chr.uuid,
                          !.args = <<access.op, access.om_len>>,
                          !.calls = IF reported THEN EventCbCalls(type, access.om_len)
                                    ELSE <<>>]
    /\ UNCHANGED <<core, ble_state, ble_connection_handle, ble_event_cb, gap>>

\* ---------------------------------------------------------------------------
\* Specification SpecBle: the lobby and ble.c of device A from their static
\* initialisers, the NimBLE host, and the peer that links and writes
\* ---------------------------------------------------------------------------
SentPackets == {"NULL", "packet"}

NextBle ==
    \/ ops' = ops /\ UNCHANGED <<loader, gatt, cache>>
           /\ \E ret \in {"ESP_OK", "ESP_FAIL"} : LobbyInit(ret)
    \/ ops' = ops /\ UNCHANGED <<loader, gatt, cache>>
           /\ \E fields_rc \in {0, 1}, rc \in AdvStartReturns :
                         LobbyStartHosting(fields_rc, rc)
    \/ ops' = ops /\ UNCHANGED <<loader, gatt, cache>>
           /\ \E rc \in AdvStopReturns : LobbyStopHosting(rc)
    \/ ops' = ops /\ UNCHANGED <<loader, gatt, cache>>
           /\ \E fields_rc \in {0, 1}, rc \in AdvStartReturns :
                         BleStartAdvertising(fields_rc, rc)
    \/ ops' = ops /\ UNCHANGED <<loader, gatt, cache>>
           /\ \E rc \in AdvStopReturns : BleStopAdvertising(rc)
    \/ ops' = ops /\ UNCHANGED <<loader, gatt, cache>>
           /\ \E fn \in {"ble_start_scanning", "ble_stop_scanning"},
                        rc \in {0, 1} : BleScanning(fn, rc)
    \/ ops' = ops /\ UNCHANGED <<loader, gatt, cache>>
           /\ \E rc \in AdvStopReturns : BleDeinit(rc)
    \/ ops' = ops /\ UNCHANGED <<loader, gatt, cache>>
           /\ \E state \in SentPackets, rc \in {0, 1} :
                         BleSendGameState(state, rc)
    \/ ops' = ops /\ UNCHANGED <<loader, gatt, cache>>
           /\ \E input \in SentPackets, rc \in {0, 1} : BleSendInput(input, rc)
    \/ ops' = ops /\ UNCHANGED <<loader, gatt, cache>>
           /\ \E event \in GapEvents : BleGapEvent(event)
    \/ ops' = ops /\ UNCHANGED <<loader, gatt, cache>>
           /\ \E access \in Accesses : BleGattCharAccess(access)

SpecBle == Init /\ [][NextBle]_vars

\* ---------------------------------------------------------------------------
\* The track loader: track_loader.c and its cache of loaded tracks. A track is
\* the number of its load, NULL is 0.
\* ---------------------------------------------------------------------------
\* the part of track_unload(track) that removes the track from the cache
track_unload(entries, count, track) ==
    IF track = 0 \/ ~LoaderConfig.enable_cache
        THEN [track_cache |-> entries, cache_count |-> count]
    ELSE LET found == {i \in 0..(count - 1) : entries[i] = track}
         IN  IF found = {}
                 THEN [track_cache |-> entries, cache_count |-> count]
             ELSE LET i == CHOOSE k \in found : \A m \in found : k <= m
                  IN  [track_cache |->
                           [j \in LoaderSlots |->
                                IF j >= i /\ j < count - 1 THEN entries[j + 1]
                                ELSE entries[j]],
                       cache_count |-> count - 1]

\* the part of track_unload(track) that frees the track
Freed(counts, track) ==
    IF track = 0 THEN counts ELSE [counts EXCEPT ![track] = @ + 1]

\* the loop of track_loader_deinit from index i on: the cache, and the tracks
\* handed to track_unload, in order
RECURSIVE DeinitLoop(_, _, _, _)
DeinitLoop(i, entries, count, calls) ==
    IF i < count
    THEN LET r == track_unload(entries, count, entries[i])
         IN  DeinitLoop(i + 1, r.track_cache, r.cache_count,
                        Append(calls, entries[i]))
    ELSE [track_cache |-> entries, cache_count |-> count, calls |-> calls]

\* the counts once the tracks of calls were freed
RECURSIVE FreedAll(_, _)
FreedAll(counts, calls) ==
    IF calls = <<>> THEN counts
    ELSE FreedAll(Freed(counts, Head(calls)), Tail(calls))

\* the tracks in the cache
Cached == {track_cache[i] : i \in 0..(cache_count - 1)}
\* the tracks loaded and not freed
Live == {t \in 1..loaded : unloaded[t] = 0}

\* what was not loaded cannot be freed twice: a track freed twice is a fault
FreedTwice(counts) == \E t \in TrackIds : counts[t] > 1

\* track_loader_load(filename): the file loads and the track is returned, or
\* it does not and NULL is
TrackLoaderLoad(loads) ==
    /\ loaded < MaxTracks
    /\ IF ~loads
       THEN /\ last' = [Call("track_loader_load", "A") EXCEPT !.result = 0]
            /\ UNCHANGED loader
       ELSE LET track == loaded + 1
                caches == LoaderConfig.enable_cache
                              /\ cache_count < LoaderConfig.max_tracks_cached
            IN  /\ loaded' = track
                /\ track_cache' =
                       IF caches THEN [track_cache EXCEPT ![cache_count] = track]
                       ELSE track_cache
                /\ cache_count' = IF caches THEN cache_count + 1 ELSE cache_count
                /\ last' = [Call("track_loader_load", "A") EXCEPT
                               !.result = track, !.ok = caches]
                /\ UNCHANGED unloaded
    /\ UNCHANGED <<core, transport, gatt, cache>>

\* track_unload(track) called by the application, with a track it holds or
\* with NULL
TrackUnload(track) ==
    /\ track \in Live \cup {0}
    /\ LET r == track_unload(track_cache, cache_count, track)
       IN  /\ track_cache' = r.track_cache
           /\ cache_count' = r.cache_count
           /\ unloaded' = Freed(unloaded, track)
           /\ last' = [Call("track_unload", "A") EXCEPT !.args = <<track>>]
    /\ UNCHANGED <<core, transport, gatt, cache, loaded>>

\* track_loader_deinit()
TrackLoaderDeinit ==
    /\ LET r == DeinitLoop(0, track_cache, cache_count, <<>>)
       IN  /\ track_cache' = r.track_cache
           /\ cache_count' = 0
           /\ unloaded' = FreedAll(unloaded, r.calls)
           /\ last' = [Call("track_loader_deinit", "A") EXCEPT
                          !.args = [i \in 1..cache_count |-> track_cache[i - 1]],
                          !.calls = r.calls,
                          !.fault = FreedTwice(FreedAll(unloaded, r.calls))]
    /\ UNCHANGED <<core, transport, gatt, cache, loaded>>

\* ---------------------------------------------------------------------------
\* Specification SpecLoader: the loader from its static initialisers, and an
\* application that loads MaxTracks tracks, unloads tracks it holds and
\* deinitialises the loader
\* ---------------------------------------------------------------------------
NextLoader ==
    \/ ops' = ops /\ \E loads \in BOOLEAN : TrackLoaderLoad(loads)
    \/ ops' = ops /\ \E track \in TrackIds \cup {0} : TrackUnload(track)
    \/ ops' = ops /\ TrackLoaderDeinit

SpecLoader == Init /\ [][NextLoader]_vars

\* ---------------------------------------------------------------------------
\* The GATT service: gatt.c, the stored characteristic data and the access
\* callbacks the NimBLE host calls for the peer
\* ---------------------------------------------------------------------------
\* gatt_services_extended: the flags of the two characteristics
GattFlags ==
    [game_state |-> {"READ", "NOTIFY", "INDICATE"},
     input |-> {"WRITE", "WRITE_NO_RSP", "NOTIFY"}]

\* gatt_game_state_access(conn_handle, attr_handle, ctxt, arg): the stored
\* data after the call, the value returned and the packet appended to the
\* reply; om is what the peer wrote, append_rc what os_mbuf_append returns
gatt_game_state_access(data, op, om, append_rc) ==
    CASE op = "READ" ->
             LET d == [data EXCEPT !.checksum = GameStateChecksum(data)]
             IN  [data |-> d,
                  rc |-> IF append_rc = 0 THEN "0" ELSE "BLE_ATT_ERR_INSUFFICIENT_RES",
                  served |-> IF append_rc = 0 THEN <<d>> ELSE <<>>]
      [] op = "WRITE" ->
             IF om.om_len # 33
                 THEN [data |-> data, rc |-> "BLE_ATT_ERR_INVALID_ATTR_VALUE_LEN",
                       served |-> <<>>]
             ELSE IF om.om_data.checksum # GameStateChecksum(om.om_data)
                 THEN [data |-> om.om_data, rc |-> "BLE_ATT_ERR_UNLIKELY",
                       served |-> <<>>]
             ELSE [data |-> om.om_data, rc |-> "0", served |-> <<>>]
      [] OTHER -> [data |-> data, rc |-> "BLE_ATT_ERR_UNLIKELY", served |-> <<>>]

\* gatt_input_access(conn_handle, attr_handle, ctxt, arg)
gatt_input_access(data, op, om, append_rc) ==
    CASE op = "WRITE" ->
             IF om.om_len # 13
                 THEN [data |-> data, rc |-> "BLE_ATT_ERR_INVALID_ATTR_VALUE_LEN",
                       served |-> <<>>]
             ELSE IF om.om_data.checksum # InputChecksum(om.om_data)
                 THEN [data |-> om.om_data, rc |-> "BLE_ATT_ERR_UNLIKELY",
                       served |-> <<>>]
             ELSE [data |-> om.om_data, rc |-> "0", served |-> <<>>]
      [] op = "READ" ->
             LET d == [data EXCEPT !.checksum = InputChecksum(data)]
             IN  [data |-> d,
                  rc |-> IF append_rc = 0 THEN "0" ELSE "BLE_ATT_ERR_INSUFFICIENT_RES",
                  served |-> IF append_rc = 0 THEN <<d>> ELSE <<>>]
      [] OTHER -> [data |-> data, rc |-> "BLE_ATT_ERR_UNLIKELY", served |-> <<>>]

\* the operations the host hands to the callback of a characteristic: those
\* its flags permit
AccessOps == {"READ", "WRITE"}

\* the game-state packets and the input packets of a peer: sound ones, and
\* ones whose checksum was damaged on the way
GattGameStatePackets ==
    LET sound == WireGameState(1, LinkCar, 5, 0)
    IN  {sound, DamagedChecksum(sound)}
GattInputPackets ==
    LET sound == {WireInput(1, f) : f \in {5, 6}}
    IN  sound \cup {DamagedChecksum(p) : p \in sound}

\* what the peer writes: a packet in full, or cut short by a byte
Writes(packets, size) ==
    {[om_len |-> n, om_data |-> p] : n \in {size, size - 1}, p \in packets}

\* the host calls gatt_game_state_access
GattGameStateAccess(op, om, append_rc) ==
    /\ op \in GattFlags.game_state
    /\ LET r == gatt_game_state_access(gatt_game_state_data, op, om, append_rc)
       IN  /\ gatt_game_state_data' = r.data
           /\ last' = [Call("gatt_game_state_access", "A") EXCEPT
                          !.report = r.rc,
                          !.args = <<op, om.om_len>>,
                          !.gpkt = om.om_data,
                          !.calls = r.served]
    /\ UNCHANGED <<core, transport, loader, cache, gatt_input_data, gatt_ccc>>

\* the host calls gatt_input_access
GattInputAccess(op, om, append_rc) ==
    /\ op \in GattFlags.input
    /\ LET r == gatt_input_access(gatt_input_data, op, om, append_rc)
       IN  /\ gatt_input_data' = r.data
           /\ last' = [Call("gatt_input_access", "A") EXCEPT
                          !.report = r.rc,
                          !.args = <<op, om.om_len>>,
                          !.ipkt = om.om_data,
                          !.calls = r.served]
    /\ UNCHANGED <<core, transport, loader, cache, gatt_game_state_data, gatt_ccc>>

\* gatt_ccc_access for the descriptor of characteristic chr: a write of a
\* value of two bytes
GattCccAccess(chr, value) ==
    /\ gatt_ccc' = [gatt_ccc EXCEPT ![chr] = value]
    /\ last' = [Call("gatt_ccc_access", "A") EXCEPT !.report = "0", !.args = <<chr, value>>]
    /\ UNCHANGED <<core, transport, loader, cache, gatt_game_state_data,
                   gatt_input_data>>

\* gatt_notify_game_state(conn_handle, state), ble_gatts_notify returning rc
GattNotifyGameState(state, rc) ==
    /\ IF gatt_ccc.game_state = 0
       THEN /\ last' = [Call("gatt_notify_game_state", "A") EXCEPT
                           !.report = "ESP_ERR_INVALID_STATE"]
            /\ UNCHANGED gatt_game_state_data
       ELSE \E d \in {[state EXCEPT !.checksum = GameStateChecksum(state)]} :
                /\ gatt_game_state_data' = d
                /\ last' = [Call("gatt_notify_game_state", "A") EXCEPT
                               !.report = IF rc = 0 THEN "ESP_OK" ELSE "ESP_FAIL",
                               !.calls = <<d>>]
    /\ UNCHANGED <<core, transport, loader, cache, gatt_input_data, gatt_ccc>>

\* gatt_notify_input(conn_handle, input)
GattNotifyInput(input, rc) ==
    /\ IF gatt_ccc.input = 0
       THEN /\ last' = [Call("gatt_notify_input", "A") EXCEPT
                           !.report = "ESP_ERR_INVALID_STATE"]
            /\ UNCHANGED gatt_input_data
       ELSE \E d \in {[input EXCEPT !.checksum = InputChecksum(input)]} :
                /\ gatt_input_data' = d
                /\ last' = [Call("gatt_notify_input", "A") EXCEPT
                               !.report = IF rc = 0 THEN "ESP_OK" ELSE "ESP_FAIL",
                               !.calls = <<d>>]
    /\ UNCHANGED <<core, transport, loader, cache, gatt_game_state_data, gatt_ccc>>

\* ---------------------------------------------------------------------------
\* Specification SpecGatt: gatt.c from its static initialisers, a peer that
\* reads, writes and subscribes, and an application that notifies
\* ---------------------------------------------------------------------------
NextGatt ==
    \/ ops' = ops /\ \E op \in AccessOps, append_rc \in {0, 1},
                        om \in Writes(GattGameStatePackets, 33) :
                         GattGameStateAccess(op, om, append_rc)
    \/ ops' = ops /\ \E op \in AccessOps, append_rc \in {0, 1},
                        om \in Writes(GattInputPackets, 13) :
                         GattInputAccess(op, om, append_rc)
    \/ ops' = ops /\ \E chr \in {"game_state", "input"}, value \in {0, 1} :
                         GattCccAccess(chr, value)
    \/ ops' = ops /\ \E state \in GattGameStatePackets, rc \in {0, 1} :
                         GattNotifyGameState(state, rc)
    \/ ops' = ops /\ \E input \in GattInputPackets, rc \in {0, 1} :
                         GattNotifyInput(input, rc)

SpecGatt == Init /\ [][NextGatt]_vars

\* ---------------------------------------------------------------------------
\* The track cache: track_cache.c, called by the tasks of Tasks. A call is a
\* sequence of steps: the call, xSemaphoreTake, the part between take and
\* give, and what follows the give. last_access is the time of the call, and
\* the time is the number of calls so far.
\* ---------------------------------------------------------------------------
\* the calls of a run
MaxCacheCalls == 3
\* the files of the tracks, and the track loaded from each
Filenames == {"a", "b", "c"}
TrackOf == [f \in Filenames |-> CHOOSE n \in 1..3 : <<"a", "b", "c">>[n] = f]

\* the slots that hold the track of filename
SlotsOf(filename) ==
    {i \in CacheSlots : cache_entries[i].track # 0
                            /\ cache_entries[i].filename = filename}
\* the lowest slot of a set
FirstSlot(S) == CHOOSE i \in S : \A j \in S : i <= j

\* track_cache_init(), the mutex created
TrackCacheInit ==
    /\ cache_mutex = "NULL"
    /\ cache_mutex' = "free"
    /\ cache_entries' = [i \in CacheSlots |-> ZeroEntry]
    /\ cache_hits' = 0
    /\ cache_misses' = 0
    /\ cache_evictions' = 0
    /\ last' = [Call("track_cache_init", "A") EXCEPT !.report = "ESP_OK"]
    /\ UNCHANGED <<core, transport, loader, gatt, task, gets, ops>>

\* task t calls fn(filename): without a mutex the call returns at once,
\* otherwise the task goes on to take the mutex
TrackCacheCalled(t, fn, filename) ==
    /\ task[t].pc = "idle"
    /\ ops < MaxCacheCalls
    /\ ops' = ops + 1
    /\ fn = "track_cache_add" => unloaded[TrackOf[filename]] = 0
    /\ task' = IF cache_mutex = "NULL" THEN task
               ELSE [task EXCEPT ![t] = [pc |-> "take", fn |-> fn,
                                         filename |-> filename, reg |-> 0]]
    /\ last' = [Call(fn, "A") EXCEPT
                   !.report = IF cache_mutex = "NULL" THEN "returned" ELSE "called",
                   !.args = <<t, filename>>]
    /\ UNCHANGED <<core, transport, loader, gatt, cache_entries, cache_mutex,
                   cache_hits, cache_misses, cache_evictions, gets>>

\* xSemaphoreTake(cache_mutex, portMAX_DELAY) returns in task t
SemaphoreTake(t) ==
    /\ task[t].pc = "take"
    /\ cache_mutex = "free"
    /\ cache_mutex' = t
    /\ task' = [task EXCEPT ![t].pc = "taken"]
    /\ last' = [Call("xSemaphoreTake", "A") EXCEPT !.args = <<t>>]
    /\ UNCHANGED <<core, transport, loader, gatt, cache_entries, cache_hits,
                   cache_misses, cache_evictions, gets, ops>>

\* track_cache_get(filename) in task t, from the take to the give
TrackCacheGet(t) ==
    /\ task[t].pc = "taken" /\ task[t].fn = "track_cache_get"
    /\ cache_mutex = t
    /\ LET found == SlotsOf(task[t].filename)
       IN  IF found # {}
           THEN /\ cache_entries' =
                       [cache_entries EXCEPT ![FirstSlot(found)] =
                            [@ EXCEPT !.last_access = ops,
                                      !.access_count = @ + 1]]
                /\ task' = [task EXCEPT ![t].pc = "load_hits"]
                /\ last' = [Call("track_cache_get", "A") EXCEPT
                               !.report = "given", !.args = <<t, task[t].filename>>,
                               !.result = cache_entries[FirstSlot(found)].track]
           ELSE /\ task' = [task EXCEPT ![t].pc = "load_misses"]
                /\ last' = [Call("track_cache_get", "A") EXCEPT
                               !.report = "given", !.args = <<t, task[t].filename>>]
                /\ UNCHANGED cache_entries
    /\ cache_mutex' = "free"
    /\ UNCHANGED <<core, transport, loader, gatt, cache_hits, cache_misses,
                   cache_evictions, gets, ops>>

\* cache_hits++ and cache_misses++ after the give: the counter is read
CounterLoad(t) ==
    /\ task[t].pc \in {"load_hits", "load_misses"}
    /\ task' = [task EXCEPT
                   ![t].pc = IF @ = "load_hits" THEN "store_hits" ELSE "store_misses",
                   ![t].reg = IF task[t].pc = "load_hits" THEN cache_hits
                              ELSE cache_misses]
    /\ last' = [Call("track_cache_get", "A") EXCEPT
                   !.report = "loaded", !.args = <<t, task[t].filename>>]
    /\ UNCHANGED <<core, transport, loader, gatt, cache_entries, cache_mutex,
                   cache_hits, cache_misses, cache_evictions, gets, ops>>

\* the counter is written, and track_cache_get returns
CounterStore(t) ==
    /\ task[t].pc \in {"store_hits", "store_misses"}
    /\ cache_hits' = IF task[t].pc = "store_hits" THEN task[t].reg + 1
                     ELSE cache_hits
    /\ cache_misses' = IF task[t].pc = "store_misses" THEN task[t].reg + 1
                       ELSE cache_misses
    /\ gets' = gets + 1
    /\ task' = [task EXCEPT ![t] = Idle]
    /\ last' = [Call("track_cache_get", "A") EXCEPT
                   !.report = "returned", !.args = <<t, task[t].filename>>]
    /\ UNCHANGED <<core, transport, loader, gatt, cache_entries, cache_mutex,
                   cache_evictions, ops>>

\* the slot track_cache_add picks: the first empty one, or else the first of
\* those accessed longest ago
AddSlot ==
    LET empty == {i \in CacheSlots : cache_entries[i].track = 0}
        oldest == {i \in CacheSlots :
                       \A j \in CacheSlots :
                           cache_entries[i].last_access <= cache_entries[j].last_access}
    IN  IF empty # {} THEN FirstSlot(empty) ELSE FirstSlot(oldest)

\* track_cache_add(filename, track) in task t, from the take to the give and
\* the return
TrackCacheAdd(t) ==
    /\ task[t].pc = "taken" /\ task[t].fn = "track_cache_add"
    /\ cache_mutex = t
    /\ IF SlotsOf(task[t].filename) # {}
       THEN UNCHANGED <<cache_entries, cache_evictions, loader>>
       ELSE LET slot == AddSlot
                evicted == cache_entries[slot].track
                r == track_unload(track_cache, cache_count, evicted)
            IN  /\ cache_entries' =
                       [cache_entries EXCEPT ![slot] =
                            [track |-> TrackOf[task[t].filename],
                             filename |-> task[t].filename,
                             last_access |-> ops, access_count |-> 1]]
                /\ cache_evictions' =
                       IF evicted # 0 THEN cache_evictions + 1 ELSE cache_evictions
                /\ track_cache' = r.track_cache
                /\ cache_count' = r.cache_count
                /\ unloaded' = Freed(unloaded, evicted)
                /\ UNCHANGED loaded
    /\ cache_mutex' = "free"
    /\ task' = [task EXCEPT ![t] = Idle]
    /\ last' = [Call("track_cache_add", "A") EXCEPT
                   !.report = "ESP_OK", !.args = <<t, task[t].filename>>]
    /\ UNCHANGED <<core, transport, gatt, cache_hits, cache_misses, gets, ops>>

\* track_cache_get_stats(stats) in task t, from the take to the give and the
\* return
TrackCacheGetStats(t) ==
    /\ task[t].pc = "taken" /\ task[t].fn = "track_cache_get_stats"
    /\ cache_mutex = t
    /\ cache_mutex' = "free"
    /\ task' = [task EXCEPT ![t] = Idle]
    /\ last' = [Call("track_cache_get_stats", "A") EXCEPT
                   !.report = "returned",
                   !.args = <<t, Cardinality({i \in CacheSlots :
                                                  cache_entries[i].track # 0}),
                              cache_hits, cache_misses, cache_evictions>>]
    /\ UNCHANGED <<core, transport, loader, gatt, cache_entries, cache_hits,
                   cache_misses, cache_evictions, gets, ops>>

\* ---------------------------------------------------------------------------
\* Specification SpecCache: the track cache from its static initialisers,
\* track_cache_init, and two tasks that make MaxCacheCalls calls between them
\* ---------------------------------------------------------------------------
CacheCalls == {"track_cache_get", "track_cache_add", "track_cache_get_stats"}

NextCache ==
    \/ TrackCacheInit
    \/ \E t \in Tasks, fn \in CacheCalls, filename \in Filenames :
           TrackCacheCalled(t, fn, filename)
    \/ \E t \in Tasks : SemaphoreTake(t)
    \/ \E t \in Tasks : TrackCacheGet(t)
    \/ \E t \in Tasks : CounterLoad(t)
    \/ \E t \in Tasks : CounterStore(t)
    \/ \E t \in Tasks : TrackCacheAdd(t)
    \/ \E t \in Tasks : TrackCacheGetStats(t)

SpecCache == Init /\ [][NextCache]_vars

\* ---------------------------------------------------------------------------
\* Properties
\* ---------------------------------------------------------------------------
\* the checksum a packet carries is not the CRC-16 of the bytes before it
InputChecksumDiffers(p) == p.checksum # crc16(InputPacketBytes(p))
GameStateChecksumDiffers(p) == p.checksum # crc16(GameStatePacketBytes(p))

\* C1: an input or game-state packet whose stored checksum differs from the
\* CRC-16 recomputed over the preceding bytes is dropped whole: the outputs
\* throttle, brake and steering, the remote ring buffer, the target car, the
\* world's checkpoints and the tracker (latency average, sample count,
\* last_received_frame) are as before the call.
C1_ChecksumMismatchDropsPacket ==
    [][/\ (last'.op = "unpack_input" /\ InputChecksumDiffers(last'.ipkt))
            => /\ last'.controls = StaleControls
               /\ UNCHANGED <<remote_input_buffer, remote_car, world, protocol_state>>
       /\ (last'.op = "unpack_game_state" /\ GameStateChecksumDiffers(last'.gpkt))
            => UNCHANGED <<remote_input_buffer, remote_car, world, protocol_state>>
      ]_vars

\* C1 witness: an input packet from the expected player, for a frame inside
\* the window, with a wrong checksum, was handed to protocol_unpack_input
C1_Witness ==
    /\ last.op = "unpack_input"
    /\ InputChecksumDiffers(last.ipkt)
    /\ last.ipkt.player_id = protocol_state[last.dev].remote_player_id
    /\ last.frame >= remote_input_buffer[last.dev].start_frame
    /\ last.frame < remote_input_buffer[last.dev].start_frame + PROTOCOL_INPUT_BUFFER_SIZE

\* C2: protocol_unpack_game_state with a packet whose player_id is not the
\* expected remote player id changes nothing, whether the checksum is valid
\* or not: car, checkpoints and tracker are unchanged.
C2_WrongPlayerIdDropsGameState ==
    [][(/\ last'.op = "unpack_game_state"
        /\ last'.gpkt.player_id # protocol_state[last'.dev].remote_player_id)
          => UNCHANGED <<remote_car, world, protocol_state>>
      ]_vars

\* C2 witness: a game-state packet with a valid checksum from an unexpected
\* player was handed to protocol_unpack_game_state
C2_Witness ==
    /\ last.op = "unpack_game_state"
    /\ last.gpkt.player_id # protocol_state[last.dev].remote_player_id
    /\ ~GameStateChecksumDiffers(last.gpkt)

\* the remote buffer and the samples on record of the device of the last call
LastRemoteBuffer == remote_input_buffer[last.dev]
LastRemoteStored == remote_stored[last.dev]

\* C3: after any sequence of accepted remote stores, protocol_advance_frame
\* calls and resets, if a remote sample was stored for frame f and f is at or
\* above the remote buffer's start_frame, protocol_predict_remote_input(f)
\* returns exactly that sample.
C3_PredictReturnsStoredSample ==
    last.op = "predict_remote_input" =>
        \A q \in LastRemoteStored :
            (q.frame_number = last.frame /\ last.frame >= LastRemoteBuffer.start_frame)
                => (last.predicted = q /\ last.ok)

\* C3 witness: a prediction for a frame with a stored sample, in a buffer
\* that protocol_advance_frame has moved to a start_frame above 0
C3_Witness ==
    /\ last.op = "predict_remote_input"
    /\ LastRemoteBuffer.start_frame > 0
    /\ last.frame >= LastRemoteBuffer.start_frame
    /\ \E q \in LastRemoteStored : q.frame_number = last.frame

\* C4: with a non-empty remote buffer, protocol_predict_remote_input(f) for
\* f >= start_frame + count returns the throttle, brake, steering and buttons
\* of the newest stored sample, the one stored for start_frame + count - 1,
\* with frame_number f; also after a compaction to a start_frame that is not
\* a multiple of 64.
C4_ExtrapolationHoldsNewestSample ==
    (/\ last.op = "predict_remote_input"
     /\ LastRemoteBuffer.count > 0
     /\ last.frame >= LastRemoteBuffer.start_frame + LastRemoteBuffer.count)
      => \A q \in LastRemoteStored :
            q.frame_number = LastRemoteBuffer.start_frame + LastRemoteBuffer.count - 1
              => /\ last.predicted.throttle = q.throttle
                 /\ last.predicted.brake = q.brake
                 /\ last.predicted.steering = q.steering
                 /\ last.predicted.buttons = q.buttons
                 /\ last.predicted.frame_number = last.frame

\* C5: whenever the remote buffer is empty, protocol_predict_remote_input for
\* any frame f returns throttle 0, brake 0, steering 0, buttons 0, stamped
\* with frame_number f, and reports success.
C5_EmptyBufferPredictsNeutral ==
    (last.op = "predict_remote_input" /\ LastRemoteBuffer.count = 0)
      => /\ last.predicted.throttle = 0
         /\ last.predicted.brake = 0
         /\ last.predicted.steering = 0
         /\ last.predicted.buttons = 0
         /\ last.predicted.frame_number = last.frame
         /\ last.ok

\* C5 witness: a prediction for a frame above 0 from an empty remote buffer
C5_Witness ==
    /\ last.op = "predict_remote_input"
    /\ LastRemoteBuffer.count = 0
    /\ last.frame > 0

\* what C6 says of one store of packet p for frame: before and after are the
\* buffer before and after the call
StoredAsClaimed(before, after, frame, p) ==
    IF /\ frame >= before.start_frame
       /\ frame < before.start_frame + 64
    THEN /\ after.start_frame = before.start_frame
         /\ after.count = (IF before.count > frame - before.start_frame + 1
                           THEN before.count
                           ELSE frame - before.start_frame + 1)
         /\ \E i \in 0..63 : after.inputs = [before.inputs EXCEPT ![i] = p]
    ELSE after = before

\* C6: a store into an input ring buffer (protocol_store_local_input, the
\* store step of protocol_unpack_input) for a frame outside
\* [start_frame, start_frame + 64) leaves the buffer's slots, start_frame and
\* count unchanged; a store for a frame inside the window writes exactly one
\* slot and sets count to max(count, frame - start_frame + 1).
C6_StoreWindow ==
    [][/\ last'.op = "store_local_input"
            => StoredAsClaimed(local_input_buffer[last'.dev],
                               local_input_buffer'[last'.dev],
                               last'.frame, last'.ipkt)
       /\ (/\ last'.op = "unpack_input"
           /\ last'.ipkt.player_id = protocol_state[last'.dev].remote_player_id
           /\ ~InputChecksumDiffers(last'.ipkt))
            => StoredAsClaimed(remote_input_buffer[last'.dev],
                               remote_input_buffer'[last'.dev],
                               last'.frame, last'.ipkt)
      ]_vars

\* C6 witness: a remote store inside the window for a frame below the newest
\* one, so that count stays above frame - start_frame + 1
C6_Witness ==
    /\ last.op = "unpack_input"
    /\ last.ipkt \in LastRemoteStored
    /\ LastRemoteBuffer.inputs[(last.frame - LastRemoteBuffer.start_frame) % 64] = last.ipkt
    /\ LastRemoteBuffer.count > last.frame - LastRemoteBuffer.start_frame + 1

\* C7: in every reachable state the local and the remote input buffer have
\* count <= 64.
C7_CountAtMostCapacity ==
    \A d \in Devices :
        /\ local_input_buffer[d].count <= 64
        /\ remote_input_buffer[d].count <= 64

\* C7 witness: a store for the last frame of the window filled a buffer
C7_Witness ==
    /\ last.op \in {"store_local_input", "unpack_input"}
    /\ \/ local_input_buffer[last.dev].count = 64
       \/ remote_input_buffer[last.dev].count = 64

\* what C8 says of one buffer when protocol_advance_frame moved the counter
\* to frame
CompactedAsClaimed(before, after, frame) ==
    IF frame > before.start_frame + 32
    THEN after.start_frame = frame - 16 /\ after.count = 16
    ELSE after.start_frame = before.start_frame /\ after.count = before.count

\* C8: protocol_advance_frame compacts a buffer (start_frame :=
\* current_frame - 16, count := 16) exactly when the incremented
\* current_frame is more than 32 frames ahead of that buffer's start_frame,
\* and leaves its start_frame and count untouched otherwise; for the local
\* and the remote buffer independently.
C8_CompactsWhenAheadOfStart ==
    [][last'.op = "advance_frame"
         => /\ CompactedAsClaimed(local_input_buffer[last'.dev],
                                  local_input_buffer'[last'.dev],
                                  protocol_state'[last'.dev].current_frame)
            /\ CompactedAsClaimed(remote_input_buffer[last'.dev],
                                  remote_input_buffer'[last'.dev],
                                  protocol_state'[last'.dev].current_frame)
      ]_vars

\* the device of the last call and its peer were given complementary roles
ComplementaryRoles ==
    protocol_state[last.dev].is_host # protocol_state[Peer(last.dev)].is_host

\* C9: protocol_pack_input on one peer followed by protocol_unpack_input of
\* the unmodified packet on the peer with the complementary role yields the
\* throttle, brake and steering that were packed (values on the 1/100 grid).
C9_InputRoundTrip ==
    (/\ last.op = "unpack_input"
     /\ ComplementaryRoles
     /\ last.ipkt = tx_input[Peer(last.dev)].packet)
      => /\ last.controls.throttle = tx_input[Peer(last.dev)].input.throttle
         /\ last.controls.brake = tx_input[Peer(last.dev)].input.brake
         /\ last.controls.steering = tx_input[Peer(last.dev)].input.steering

\* C10: protocol_pack_game_state on one peer followed by
\* protocol_unpack_game_state of the unmodified packet on the peer with the
\* complementary role is accepted, and the receiver's car position, velocity
\* and heading equal the sender's.
C10_GameStateRoundTrip ==
    (/\ last.op = "unpack_game_state"
     /\ ComplementaryRoles
     /\ last.gpkt = tx_state[Peer(last.dev)].packet)
      => /\ remote_car[last.dev].position = tx_state[Peer(last.dev)].car.position
         /\ remote_car[last.dev].velocity = tx_state[Peer(last.dev)].car.velocity
         /\ remote_car[last.dev].heading = tx_state[Peer(last.dev)].car.heading
         /\ protocol_state[last.dev].last_received_frame = last.gpkt.frame_number
         /\ protocol_state[last.dev].latency_samples >= 1

\* C10 witness: the round trip of a car with negative coordinates between
\* peers of complementary roles
C10_Witness ==
    /\ last.op = "unpack_game_state"
    /\ ComplementaryRoles
    /\ last.gpkt = tx_state[Peer(last.dev)].packet
    /\ tx_state[Peer(last.dev)].car.position.x < 0
    /\ tx_state[Peer(last.dev)].car.velocity.x < 0

\* the number of places where two byte sequences of one length differ
DifferingBytes(a, b) == Cardinality({i \in DOMAIN a : a[i] # b[i]})

\* the two devices have complementary roles
HostAndClient == protocol_state["A"].is_host # protocol_state["B"].is_host

\* the last call read a packet that is the peer's packed input packet, or its
\* packed game-state packet, with exactly one byte replaced
OneInputByteReplaced ==
    /\ HostAndClient
    /\ last'.op = "unpack_input" /\ PeerSentInput(last'.dev)
    /\ DifferingBytes(InputPacketWire(tx_input[Peer(last'.dev)].packet),
                      InputPacketWire(last'.ipkt)) = 1
OneGameStateByteReplaced ==
    /\ HostAndClient
    /\ last'.op = "unpack_game_state" /\ PeerSentGameState(last'.dev)
    /\ DifferingBytes(GameStatePacketWire(tx_state[Peer(last'.dev)].packet),
                      GameStatePacketWire(last'.gpkt)) = 1

\* C11: replacing any single byte (payload or checksum field) of a packet
\* produced by protocol_pack_input or protocol_pack_game_state by a different
\* value makes the matching unpack function of the peer reject the packet as
\* a checksum mismatch and leave its destination unmodified.
C11_SingleByteDamageIsChecksumMismatch ==
    [][/\ OneInputByteReplaced =>
            /\ last'.report = "checksum_mismatch"
            /\ last'.controls = StaleControls
            /\ remote_input_buffer' = remote_input_buffer
       /\ OneGameStateByteReplaced =>
            /\ last'.report = "checksum_mismatch"
            /\ remote_car' = remote_car /\ world' = world
            /\ protocol_state' = protocol_state
      ]_vars

\* the part of C11 that the code keeps: a packet with one replaced byte never
\* writes to its destination, whichever of the two tests rejects it
SingleByteDamageIsDropped ==
    [][/\ OneInputByteReplaced =>
            /\ last'.report # "accepted"
            /\ last'.controls = StaleControls
            /\ remote_input_buffer' = remote_input_buffer
       /\ OneGameStateByteReplaced =>
            /\ last'.report # "accepted"
            /\ remote_car' = remote_car /\ world' = world
            /\ protocol_state' = protocol_state
      ]_vars

\* the last call was a physics_update on device A that returned
Ticked == last.op = "physics_update" /\ ~last.fault

\* car is within the radius of checkpoint, by the test of the code
InsideCheckpoint(car, checkpoint) ==
    LET delta == vec2_sub(car.position, checkpoint.position)
    IN  vec2_dot(delta, delta) < fixed_mul(checkpoint.radius, checkpoint.radius)

\* in the tick just made, car i was not finished and was, when its progress
\* was updated, inside the checkpoint it expected next
ReachedExpectedCheckpoint(i) ==
    LET before == last.before
        expected == before.current_checkpoint[i]
    IN  /\ Ticked
        /\ ~before.race_finished[i]
        /\ expected < before.checkpoint_count
        /\ InsideCheckpoint(last.moved.cars[i], before.checkpoints[expected])

\* the index after expected on a track of count checkpoints
NextCheckpoint(expected, count) ==
    IF expected + 1 >= count THEN 0 ELSE expected + 1

\* C12: in physics_update, every car that is not finished and is inside the
\* radius of the checkpoint it expects next advances to the next index (or
\* wraps to 0 after the last checkpoint) in that tick, whatever the other car
\* has passed and whatever game-state packets were accepted before.
C12_CarInsideExpectedCheckpointAdvances ==
    \A i \in CarIndices :
        ReachedExpectedCheckpoint(i) =>
            world["A"].current_checkpoint[i] =
                NextCheckpoint(last.before.current_checkpoint[i],
                               last.before.checkpoint_count)

\* the lap count the device reports for world w: the value
\* protocol_pack_game_state puts into lap_count
ReportedLapCount(w) ==
    IF PassedIndices(w) # {}
    THEN ToU8(w.checkpoints[FirstPassed(w)].lap_count)
    ELSE 0

\* in the tick just made, the next-expected index of car i wrapped from the
\* last checkpoint back to 0
Wrapped(i) ==
    /\ Ticked
    /\ world["A"].laps_done[i] = last.before.laps_done[i] + 1

\* C13: when the next-expected index of a car wraps from the last checkpoint
\* to 0 in a tick, the lap count goes up by exactly one and (unless the other
\* car advanced in the same tick) every passed flag is clear; a tick in which
\* no car wraps leaves the lap count as it was.
C13_WrapAddsOneLap ==
    /\ \A i \in CarIndices :
         Wrapped(i) =>
            /\ ReportedLapCount(world["A"]) = ReportedLapCount(last.before) + 1
            /\ (\A j \in CarIndices \ {i} :
                    world["A"].current_checkpoint[j] =
                        last.before.current_checkpoint[j])
                 => \A k \in 0..(world["A"].checkpoint_count - 1) :
                        ~world["A"].checkpoints[k].passed
    /\ (Ticked /\ \A i \in CarIndices : ~Wrapped(i))
         => ReportedLapCount(world["A"]) = ReportedLapCount(last.before)

\* when the next-expected index of a car wraps in a tick and the other car
\* does not advance, every passed flag is clear after the tick
WrapClearsPassedFlags ==
    \A i \in CarIndices :
        (/\ Wrapped(i)
         /\ \A j \in CarIndices \ {i} :
               world["A"].current_checkpoint[j] = last.before.current_checkpoint[j])
        => \A k \in 0..(world["A"].checkpoint_count - 1) :
               ~world["A"].checkpoints[k].passed

\* no tick changes a lap_count field of the world
TickKeepsLapCounters ==
    Ticked => \A k \in 0..(world["A"].checkpoint_count - 1) :
                 world["A"].checkpoints[k].lap_count =
                     last.before.checkpoints[k].lap_count

\* car i has itself gone round all checkpoints the required number of times
CompletedRequiredLaps(w, i) == w.laps_done[i] >= w.total_laps

\* the finished flag of a car is set only if that car completed its laps
FinishedOnlyAfterLaps ==
    \A i \in CarIndices :
        world["A"].race_finished[i] => CompletedRequiredLaps(world["A"], i)

\* a car that completed its laps is marked when physics_check_race_finished
\* is called for it
CompletedLapsAreMarked ==
    \A i \in CarIndices :
        (/\ last.op = "physics_check_race_finished"
         /\ last.index = i
         /\ CompletedRequiredLaps(world["A"], i))
        => world["A"].race_finished[i]

\* C14: the finished flag of a car is set if and only if that car has itself
\* completed the required number of laps: it is never set earlier (not by
\* flags the other car or a packet set, not on an empty checkpoint list), and
\* a car that completed the laps is marked finished by the race-finished check.
C14_FinishedIffLapsCompleted ==
    FinishedOnlyAfterLaps /\ CompletedLapsAreMarked

\* in the tick just made, car i was finished and neither touched the wall nor
\* the other car
FinishedCarUntouched(i) ==
    /\ Ticked
    /\ last.before.race_finished[i]
    /\ ~physics_check_track_collision(last.moved.cars[i].position).hit
    /\ ~physics_check_car_collision(last.walled.cars[0], last.walled.cars[1])

\* C15: physics_update skips a car whose finished flag is set: in a tick with
\* no wall and no car-car contact for that car, its position, velocity,
\* heading, next-checkpoint index and race time are after the tick what they
\* were before it.
C15_FinishedCarIsSkipped ==
    \A i \in CarIndices :
        FinishedCarUntouched(i) =>
            /\ world["A"].cars[i].position = last.before.cars[i].position
            /\ world["A"].cars[i].velocity = last.before.cars[i].velocity
            /\ world["A"].cars[i].heading = last.before.cars[i].heading
            /\ world["A"].current_checkpoint[i] = last.before.current_checkpoint[i]
            /\ world["A"].race_time[i] = last.before.race_time[i]

\* a tick that skipped a finished car free of contacts while it advanced the
\* race time of the other, unfinished car
C15_Witness ==
    \E i \in CarIndices :
        /\ FinishedCarUntouched(i)
        /\ \E j \in CarIndices \ {i} :
              /\ ~last.before.race_finished[j]
              /\ world["A"].race_time[j] = last.before.race_time[j] + TickMillis

\* the last step was an iteration of the racing loop that returned and in
\* which physics_update ran: a simulation tick
LoopTicked ==
    /\ last.op = "game_loop_iteration"
    /\ ~last.fault
    /\ \E n \in DOMAIN last.calls : last.calls[n] = Made("physics_update", 0)

\* call a was made before call b in the iteration
MadeBefore(a, b) ==
    \E m, n \in DOMAIN last.calls :
        m < n /\ last.calls[m] = a /\ last.calls[n] = b

\* C16: in every simulation tick of the racing state the local input is
\* applied to the local car (car 0) first, then the remote input to the remote
\* car (car 1), and only then does physics_update integrate motion and
\* resolve collisions.
C16_InputsAppliedBeforePhysics ==
    LoopTicked =>
        /\ MadeBefore(Made("physics_handle_input", 0), Made("physics_handle_input", 1))
        /\ MadeBefore(Made("physics_handle_input", 1), Made("physics_update", 0))

\* in every simulation tick physics_update runs before the only application
\* of input the iteration makes, and no input is applied to car 1
PhysicsRunsBeforeInput ==
    LoopTicked =>
        /\ ~MadeBefore(Made("physics_handle_input", 0), Made("physics_update", 0))
        /\ \A n \in DOMAIN last.calls : last.calls[n] # Made("physics_handle_input", 1)

\* a tick that starts with both cars at rest and no force pending ends with
\* car 0 at rest whatever the input of the iteration is: the input of a tick
\* acts on the integration of the next tick only
InputWaitsForNextTick ==
    (/\ LoopTicked
     /\ \A i \in CarIndices :
           /\ last.before.cars[i].velocity = Zero2
           /\ last.before.cars[i].acceleration = Zero2)
    => world["A"].cars[0].velocity = Zero2

\* what fixed-point rounding may cost in one scaled vector
RoundingTolerance == FIXED16_ONE \div 256

\* |a - b| is within fixed-point rounding
Near(a, b) == a - b <= RoundingTolerance /\ b - a <= RoundingTolerance

\* in the tick just made, car i was beyond the wall radius when the car-track
\* loop of resolve_collisions came to it
BeyondTheWall(i) ==
    /\ Ticked
    /\ vec2_length(last.moved.cars[i].position) > PHYSICS_WALL_DISTANCE

\* C17: a car that was beyond the wall radius by penetration p has been moved
\* back toward the origin by p: after the correction its distance from the
\* origin is the wall radius within rounding and is not larger than before.
C17_WallCorrectionMovesInward ==
    \A i \in CarIndices :
        BeyondTheWall(i) =>
            /\ Near(vec2_length(last.walled.cars[i].position), PHYSICS_WALL_DISTANCE)
            /\ vec2_length(last.walled.cars[i].position)
                  <= vec2_length(last.moved.cars[i].position)

\* the contact normal of car i in the tick just made, and the tangent to the
\* wall there
WallNormal(i) == physics_check_track_collision(last.moved.cars[i].position).normal
WallTangent(i) == [x |-> -WallNormal(i).y, y |-> WallNormal(i).x]

\* in the tick just made, car i was beyond the wall and moving outward
MovingOutwardBeyondTheWall(i) ==
    /\ BeyondTheWall(i)
    /\ vec2_dot(last.moved.cars[i].velocity, WallNormal(i)) > 0

\* C18: for a car beyond the wall that moves outward, the car-track loop
\* reverses the velocity component along the normal and scales it by the
\* elasticity 0.75, and leaves the component along the wall as it was.
C18_OutwardVelocityIsReflected ==
    \A i \in CarIndices :
        MovingOutwardBeyondTheWall(i) =>
            /\ Near(vec2_dot(last.walled.cars[i].velocity, WallNormal(i)),
                    -fixed_mul(PHYSICS_COLLISION_ELASTICITY,
                               vec2_dot(last.moved.cars[i].velocity, WallNormal(i))))
            /\ Near(vec2_dot(last.walled.cars[i].velocity, WallTangent(i)),
                    vec2_dot(last.moved.cars[i].velocity, WallTangent(i)))

\* the car-track loop leaves the velocity of a car that moves outward as it is
OutwardVelocityIsKept ==
    \A i \in CarIndices :
        MovingOutwardBeyondTheWall(i) =>
            last.walled.cars[i].velocity = last.moved.cars[i].velocity

\* in the tick just made the car-car loop of resolve_collisions found the two
\* cars closer than the minimum separation
CarsInContact ==
    /\ last.op = "physics_update"
    /\ physics_check_car_collision(last.walled.cars[0], last.walled.cars[1])

\* the magnitude of a fixed-point value
Magnitude(a) == IF a < 0 THEN -a ELSE a

\* C19: when the cars are closer than the minimum separation, the resolution
\* exchanges their velocities and moves them by equal amounts in opposite
\* directions along the line joining the centres, so that the separation does
\* not decrease.
C19_CarsSwapVelocitiesAndSeparate ==
    (CarsInContact /\ ~last.fault) =>
        LET was == last.walled.cars
            now == world["A"].cars
            old == vec2_sub(was[0].position, was[1].position)
            new == vec2_sub(now[0].position, now[1].position)
        IN  /\ now[0].velocity = was[1].velocity
            /\ now[1].velocity = was[0].velocity
            /\ vec2_sub(now[0].position, was[0].position)
                  = vec2_sub(was[1].position, now[1].position)
            /\ Magnitude(new.x) >= Magnitude(old.x)
            /\ Magnitude(new.y) >= Magnitude(old.y)

\* the exchange of velocities and the equal and opposite displacement alone
CarsSwapVelocities ==
    (CarsInContact /\ ~last.fault) =>
        /\ world["A"].cars[0].velocity = last.walled.cars[1].velocity
        /\ world["A"].cars[1].velocity = last.walled.cars[0].velocity
        /\ vec2_sub(world["A"].cars[0].position, last.walled.cars[0].position)
              = vec2_sub(last.walled.cars[1].position, world["A"].cars[1].position)

\* the cars are in contact and the fixed-point length of the difference of
\* their positions is 0
CarsCoincide ==
    /\ CarsInContact
    /\ vec2_length(vec2_sub(last.walled.cars[0].position,
                            last.walled.cars[1].position)) = 0

\* C20: when the positions of the cars coincide or differ by a vector of
\* fixed-point length 0, the car-car resolution divides by nothing that is
\* zero: the operation completes and the positions stay as they were.
C20_CoincidingCarsDoNotDivideByZero ==
    CarsCoincide =>
        /\ ~last.divided
        /\ ~last.fault
        /\ \A i \in CarIndices :
              world["A"].cars[i].position = last.walled.cars[i].position

\* the square of the distance between two cars set by CarAt, in squares of a
\* sixteenth of a unit
SquaredSixteenths(predicted, actual) ==
    LET dx == (predicted.position.x - actual.position.x) \div (FIXED16_ONE \div 16)
        dy == (predicted.position.y - actual.position.y) \div (FIXED16_ONE \div 16)
    IN  (dx * dx) + (dy * dy)

\* the Euclidean distance between the positions is strictly greater than
\* threshold, a multiple of a sixteenth of a unit
DistanceExceeds(predicted, actual, threshold) ==
    LET t == threshold \div (FIXED16_ONE \div 16)
    IN  SquaredSixteenths(predicted, actual) > t * t

\* the absolute heading difference is strictly greater than 0.1 radian
HeadingExceeds(predicted, actual) ==
    \/ predicted.heading - actual.heading > HeadingTolerance
    \/ actual.heading - predicted.heading > HeadingTolerance

\* C21: protocol_should_rollback returns true if and only if the Euclidean
\* distance between the predicted and the actual position is strictly greater
\* than threshold or the absolute heading difference is strictly greater than
\* 0.1 radian (6553 raw units).
C21_RollbackIffErrorExceedsBounds ==
    last.op = "should_rollback" =>
        (last.ok <=> \/ DistanceExceeds(last.args[1], last.args[2], last.args[3])
                     \/ HeadingExceeds(last.args[1], last.args[2]))

\* the same for positions less than 100 units apart, where the squares of
\* the differences fit the type
RollbackIffErrorExceedsBoundsNearby ==
    (/\ last.op = "should_rollback"
     /\ SquaredSixteenths(last.args[1], last.args[2]) < 1600 * 1600)
    => (last.ok <=> \/ DistanceExceeds(last.args[1], last.args[2], last.args[3])
                    \/ HeadingExceeds(last.args[1], last.args[2]))

\* the last call was protocol_handle_connection(false) on device A
Disconnected == last.op = "disconnect" /\ last.dev = "A"

\* the tracker counters and both input buffers are as protocol_reset leaves
\* them
CountersAndBuffersCleared ==
    /\ protocol_state["A"].current_frame = 0
    /\ protocol_state["A"].last_received_frame = 0
    /\ protocol_state["A"].avg_latency = U32Zero
    /\ protocol_state["A"].jitter = 0
    /\ protocol_state["A"].latency_samples = 0
    /\ ~protocol_state["A"].is_connected
    /\ local_input_buffer["A"] = ZeroInputBuffer
    /\ remote_input_buffer["A"] = ZeroInputBuffer

\* C22: after protocol_handle_connection(false), from any state, the frame
\* counters, the latency average, the jitter and the sample count are 0, the
\* connected flag and the host flag are false, and both input buffers are
\* empty with every slot zero.
C22_DisconnectResetsEverything ==
    Disconnected =>
        /\ CountersAndBuffersCleared
        /\ ~protocol_state["A"].is_host

\* all of that but the host flag
DisconnectResetsCountersAndBuffers ==
    Disconnected => CountersAndBuffersCleared

\* the operations of protocol.c that are neither protocol_advance_frame nor a
\* reset (protocol_init, protocol_reset, protocol_handle_connection)
OtherOperations ==
    {"pack_input", "pack_game_state", "unpack_input", "unpack_game_state",
     "store_local_input", "predict_remote_input", "should_rollback"}

\* C23: between resets the local frame counter is monotonic:
\* protocol_advance_frame increases current_frame by exactly 1, no other
\* operation (pack, unpack, store, predict, should_rollback) changes it, and a
\* packet is stamped with the frame counter of the moment it is packed, so the
\* stamps of successive packets of one sender do not decrease.
C23_FrameCounterMonotonic ==
    [][/\ last'.op = "advance_frame" =>
             protocol_state'["A"].current_frame
                = protocol_state["A"].current_frame + 1
       /\ last'.op \in OtherOperations =>
             protocol_state'["A"].current_frame = protocol_state["A"].current_frame
       /\ last'.op = "pack_input" =>
             tx_input'["A"].packet.frame_number = protocol_state["A"].current_frame
       /\ last'.op = "pack_game_state" =>
             tx_state'["A"].packet.frame_number = protocol_state["A"].current_frame
      ]_vars

\* a packet packed after the frame counter was advanced: its stamp is the
\* advanced counter
C23_Witness ==
    /\ last.op \in {"pack_input", "pack_game_state"}
    /\ protocol_state["A"].current_frame = 1
    /\ (last.op = "pack_input" => tx_input["A"].packet.frame_number = 1)
    /\ (last.op = "pack_game_state" => tx_state["A"].packet.frame_number = 1)

\* floor((avg * (n - 1) + latency) / n) for uint32_t avg and latency, without
\* the reduction modulo 2^32 of the sum
ExactMean(avg, n, latency) ==
    LET lo == (avg[2] * (n - 1)) + latency[2]
        hi == (avg[1] * (n - 1)) + latency[1] + (lo \div U16)
        top == hi \div U16
        upper == ((top % n) * U16) + (hi % U16)
        lower == ((upper % n) * U16) + (lo % U16)
    IN  <<((top \div n) * U16) + (upper \div n), lower \div n>>

\* a <= b for uint32_t values
U32AtMost(a, b) == a[1] < b[1] \/ (a[1] = b[1] /\ a[2] <= b[2])

\* the step is the acceptance of a game-state packet by device A
AcceptsGameState ==
    /\ last'.op = "unpack_game_state"
    /\ last'.dev = "A"
    /\ last'.report = "accepted"

\* C24: the latency sample count never exceeds 100; an accepted game-state
\* packet with latency sample L makes the average floor((avg * (n - 1) + L) / n)
\* with n the smaller of the previous count + 1 and 100; and the new average
\* lies between the smallest and the largest sample since the last reset (it
\* is the first sample, or lies between the old average and the new sample).
C24_LatencyAverageIsIncrementalMean ==
    [][/\ protocol_state'["A"].latency_samples <= PROTOCOL_MAX_LATENCY_SAMPLES
       /\ AcceptsGameState =>
            LET before == protocol_state["A"]
                after == protocol_state'["A"]
                n == IF before.latency_samples + 1 < PROTOCOL_MAX_LATENCY_SAMPLES
                     THEN before.latency_samples + 1
                     ELSE PROTOCOL_MAX_LATENCY_SAMPLES
                sample == last'.args[1]
            IN  /\ after.latency_samples = n
                /\ after.avg_latency = ExactMean(before.avg_latency, n, sample)
                /\ \/ n = 1 /\ after.avg_latency = sample
                   \/ /\ U32AtMost(before.avg_latency, after.avg_latency)
                      /\ U32AtMost(after.avg_latency, sample)
                   \/ /\ U32AtMost(sample, after.avg_latency)
                      /\ U32AtMost(after.avg_latency, before.avg_latency)
      ]_vars

\* the same for samples below 2^16 ms and averages below 2^16 ms, where the
\* sum stays inside uint32_t
LatencyAverageOfSmallSamples ==
    [][(/\ AcceptsGameState
        /\ last'.args[1][1] = 0
        /\ protocol_state["A"].avg_latency[1] = 0)
       => protocol_state'["A"].avg_latency =
             ExactMean(protocol_state["A"].avg_latency,
                       protocol_state'["A"].latency_samples, last'.args[1])
      ]_vars

\* x * y for 0 <= x, y < 2^16 as the two 16-bit halves <<high, low>>
Mul16(x, y) ==
    LET upper == (x \div U8) * y
        lower == ((upper % U8) * U8) + ((x % U8) * y)
    IN  <<(upper \div U8) + (lower \div U16), lower % U16>>

\* |x|
Abs(x) == IF x < 0 THEN -x ELSE x

\* q is the 64-bit quotient (a * 65536) / b of C, truncated toward zero:
\* |a| * 2^16 = |q| * |b| + r with 0 <= r < |b|, and q has the sign of a / b;
\* the product is computed in 16-bit limbs
IsQuotient64(a, b, q) ==
    LET na == Abs(a)
        nb == Abs(b)
        nq == Abs(q)
        ll == Mul16(nq % U16, nb % U16)
        lh == Mul16(nq % U16, nb \div U16)
        hl == Mul16(nq \div U16, nb % U16)
        hh == Mul16(nq \div U16, nb \div U16)
        s1 == ll[1] + lh[2] + hl[2]
        s2 == lh[1] + hl[1] + hh[2] + (s1 \div U16)
        s3 == hh[1] + (s2 \div U16)
        d0 == 0 - ll[2]
        d1 == (na % U16) - (s1 % U16) + (d0 \div U16)
        d2 == (na \div U16) - (s2 % U16) + (d1 \div U16)
        d3 == 0 - s3 + (d2 \div U16)
    IN  /\ q = 0 \/ ((q < 0) = ((a < 0) # (b < 0)))
        /\ d3 = 0
        /\ d2 % U16 = 0
        /\ d1 % U16 < 32768
        /\ ((d1 % U16) * U16) + (d0 % U16) < nb

\* the 64-bit quotient (a * 65536) / b is a value of fixed16_t
QuotientFits(a, b) == Abs(a) \div 32768 < Abs(b)

\* C25: fixed_div(a, b) with b = 0 fails with DivideByZero for every a and
\* executes no integer division by zero; with b # 0 it returns
\* (a * 65536) / b computed in 64 bits.
C25_FixedDivGuardsZeroDivisor ==
    last.op = "fixed_div" =>
        LET a == last.args[1]
            b == last.args[2]
        IN  IF b = 0
            THEN last.report = "DivideByZero" /\ ~last.divided
            ELSE QuotientFits(a, b) => IsQuotient64(a, b, last.result)

\* with a divisor that is not 0, fixed_div returns the 64-bit quotient
FixedDivOfNonZeroDivisor ==
    (last.op = "fixed_div" /\ last.args[2] # 0
        /\ QuotientFits(last.args[1], last.args[2]))
    => IsQuotient64(last.args[1], last.args[2], last.result)

\* the call was physics_apply_force or physics_apply_torque on a car of mass 0
AppliedToMasslessCar ==
    /\ last.op \in {"physics_apply_force", "physics_apply_torque"}
    /\ last.before.cars[last.index].mass = 0

\* C26: physics_apply_force and physics_apply_torque on a car whose mass is 0
\* are guarded no-ops: no division by zero is performed and the car's
\* acceleration and angular velocity are unchanged; the cars of the race world
\* after physics_reset_race have that mass.
C26_MasslessCarIsGuarded ==
    AppliedToMasslessCar =>
        /\ ~last.divided
        /\ world[last.dev].cars[last.index].acceleration =
               last.before.cars[last.index].acceleration
        /\ world[last.dev].cars[last.index].angular_vel =
               last.before.cars[last.index].angular_vel

\* on a car with a mass, neither call divides by zero
CarWithMassIsNotDividedByZero ==
    (/\ last.op \in {"physics_apply_force", "physics_apply_torque"}
     /\ last.before.cars[last.index].mass # 0)
    => ~last.divided /\ ~last.fault

\* the 64-bit reference ((int64_t)a * b) >> 16 as <<upper, lower>>, the value
\* being upper * 2^16 + lower with 0 <= lower < 2^16; from the halves
\* a = ah * 2^16 + al and b = bh * 2^16 + bl with 0 <= al, bl < 2^16
ProductReference(a, b) ==
    LET ah == a \div U16
        al == a % U16
        bh == b \div U16
        bl == b % U16
        t1 == ah * bl
        t2 == al * bh
        lower == (t1 % U16) + (t2 % U16) + Mul16(al, bl)[1]
    IN  <<(ah * bh) + (t1 \div U16) + (t2 \div U16) + (lower \div U16),
          lower % U16>>

\* the reference is a value of int32_t
ReferenceFits(a, b) ==
    ProductReference(a, b)[1] >= -32768 /\ ProductReference(a, b)[1] <= 32767

\* r is the reference
IsReference(a, b, r) ==
    /\ ReferenceFits(a, b)
    /\ r = (ProductReference(a, b)[1] * U16) + ProductReference(a, b)[2]

\* C27: fixed_mul never silently overflows: for every pair of 32-bit
\* operands, the largest ones included, the returned value equals the 64-bit
\* reference (a * b) >> 16.
C27_FixedMulEqualsReference ==
    last.op = "fixed_mul" =>
        IsReference(last.args[1], last.args[2], last.result)

\* where the reference is a value of int32_t, fixed_mul returns it
FixedMulOfSmallProduct ==
    (last.op = "fixed_mul" /\ ReferenceFits(last.args[1], last.args[2]))
    => IsReference(last.args[1], last.args[2], last.result)

\* the states the sequential orders of a delivery and the calls it overlapped
\* lead to: the unpack before, between or after the calls
SequentialOutcomes(s, p, calls) ==
    {AfterCalls(AfterUnpack(AfterCalls(s, SubSeq(calls, 1, k)), p),
                SubSeq(calls, k + 1, Len(calls))) : k \in 0..Len(calls)}

\* C28: inbound packets reach the codec through a single-producer /
\* single-consumer boundary: every interleaving of a delivery on the transport
\* context (the unpack of an inbound packet) with calls of the game loop
\* (protocol_advance_frame, store, predict) leaves the input buffers and the
\* tracker in a state that some sequential order of those calls also produces.
C28_DeliveryIsSerializable ==
    last.op = "delivered" =>
        HandoffState("A") \in SequentialOutcomes(last.args[1], last.ipkt, last.calls)

\* a delivery that no call of the game loop overlaps is the unpack
UndisturbedDeliveryIsTheUnpack ==
    (last.op = "delivered" /\ last.calls = <<>>) =>
        HandoffState("A") = AfterUnpack(last.args[1], last.ipkt)

\* the next-expected index of every car is below checkpoint_count
CheckpointIndexInRange ==
    world["A"].checkpoint_count > 0 =>
        \A i \in CarIndices :
            world["A"].current_checkpoint[i] < world["A"].checkpoint_count

\* from index before to index after is no move, one step forward, or the wrap
\* from the last checkpoint to 0
MonotonicStep(before, after, count) ==
    \/ after = before
    \/ after = before + 1
    \/ before = count - 1 /\ after = 0

\* C29: with checkpoint_count > 0 each car's next-expected index is below
\* checkpoint_count in every reachable state, and across one physics_update
\* it stays, goes up by exactly 1, or wraps from checkpoint_count - 1 to 0.
C29_CheckpointProgressIsMonotonic ==
    /\ []CheckpointIndexInRange
    /\ [][(last'.op = "physics_update" /\ world["A"].checkpoint_count > 0) =>
            \A i \in CarIndices :
                MonotonicStep(world["A"].current_checkpoint[i],
                              world'["A"].current_checkpoint[i],
                              world["A"].checkpoint_count)]_vars

\* a physics_update moved car 0 on from checkpoint 0 to checkpoint 1 of two
C29_Witness ==
    /\ last.op = "physics_update"
    /\ world["A"].checkpoint_count = 2
    /\ last.before.current_checkpoint[0] = 0
    /\ world["A"].current_checkpoint[0] = 1

\* the iteration just made packed car 0 into a game-state packet
PackedCar0 ==
    /\ last.op = "game_loop_iteration"
    /\ \E k \in DOMAIN last.calls : last.calls[k].fn = "protocol_pack_game_state"

\* C30: the race-progress fields of a packet built by
\* protocol_pack_game_state describe the packed car: checkpoint_index is that
\* car's next-expected checkpoint index, lap_count its lap count and
\* race_finished its finished flag.
C30_PacketDescribesThePackedCar ==
    PackedCar0 =>
        /\ tx_state["A"].packet.checkpoint_index = world["A"].current_checkpoint[0]
        /\ tx_state["A"].packet.lap_count = world["A"].laps_done[0]
        /\ tx_state["A"].packet.race_finished =
               (IF world["A"].race_finished[0] THEN 1 ELSE 0)

\* the position, velocity and heading of the packet are those of the packed car
PacketCarriesTheCarState ==
    PackedCar0 =>
        /\ tx_state["A"].packet.car_position_x = world["A"].cars[0].position.x
        /\ tx_state["A"].packet.car_position_y = world["A"].cars[0].position.y
        /\ tx_state["A"].packet.car_velocity_x = world["A"].cars[0].velocity.x
        /\ tx_state["A"].packet.car_velocity_y = world["A"].cars[0].velocity.y
        /\ tx_state["A"].packet.car_heading = world["A"].cars[0].heading

\* the frames the remote buffer of device A holds: [start_frame, start_frame + count)
RetainedFrames ==
    {f \in 0..(MaxFrame + (2 * PROTOCOL_INPUT_BUFFER_SIZE)) :
        /\ f >= remote_input_buffer["A"].start_frame
        /\ f < remote_input_buffer["A"].start_frame + remote_input_buffer["A"].count}

\* C31: in every reachable state of the remote input buffer, every frame f in
\* [start_frame, start_frame + count) has a sample that was stored for f:
\* protocol_predict_remote_input(f) returns a sample whose frame_number is f;
\* also when frames arrive with gaps and after protocol_advance_frame
\* compacted the buffer.
C31_RetainedFramesHoldTheirSamples ==
    \A f \in RetainedFrames :
        LET sample == protocol_predict_remote_input(remote_input_buffer["A"], f,
                                                    StalePacket)
        IN  /\ sample.frame_number = f
            /\ sample \in remote_stored["A"]

\* while the frames arrive in order from start_frame on and the window was
\* not moved, every retained frame holds its sample
GaplessFramesHoldTheirSamples ==
    (/\ remote_input_buffer["A"].start_frame = 0
     /\ \A f \in RetainedFrames : \E q \in remote_stored["A"] : q.frame_number = f)
    => \A f \in RetainedFrames :
           protocol_predict_remote_input(remote_input_buffer["A"], f,
                                         StalePacket) \in remote_stored["A"]

\* the store just made was accepted: the sample of the frame is in its slot
\* and the frame is one of the frames the local buffer holds
StoreAccepted ==
    LET buf == local_input_buffer["A"]
    IN  /\ InWindow(buf, last.frame)
        /\ buf.inputs[BufferIndex(buf, last.frame)] = last.ipkt
        /\ last.frame < buf.start_frame + buf.count

\* C32: when every tick calls protocol_store_local_input(input, current_frame)
\* and then protocol_advance_frame, from an initialised protocol, every store
\* is accepted, for any number of ticks: current_frame is always inside the
\* window [start_frame, start_frame + 64) of the local buffer.
C32_EveryTickStoresItsInput ==
    Stored => StoreAccepted

\* the stores of the first 64 ticks are accepted
FirstTicksStoreTheirInput ==
    (Stored /\ last.frame < PROTOCOL_INPUT_BUFFER_SIZE) => StoreAccepted

\* the step is a reset of the tracker of device A
ResetsTracker ==
    last'.dev = "A" /\ last'.op \in {"init", "reset", "disconnect"}

\* C33: between resets last_received_frame is non-decreasing: accepting a
\* valid game-state packet whose frame_number is lower than
\* last_received_frame does not move it backwards.
C33_LastReceivedFrameNeverDecreases ==
    [][~ResetsTracker =>
          protocol_state'["A"].last_received_frame
              >= protocol_state["A"].last_received_frame]_vars

\* only the acceptance of a game-state packet writes last_received_frame
\* between resets, and it writes the frame number of the packet
LastReceivedFrameIsThatOfThePacket ==
    [][~ResetsTracker =>
          IF AcceptsGameState
          THEN protocol_state'["A"].last_received_frame = last'.gpkt.frame_number
          ELSE protocol_state'["A"].last_received_frame
                   = protocol_state["A"].last_received_frame]_vars

\* device A has just accepted a game-state packet
AcceptedGameState ==
    /\ last.op = "unpack_game_state"
    /\ last.dev = "A"
    /\ last.report = "accepted"

\* C35: the latency sample computed when a game-state packet is accepted is
\* (receiver time in ms - packet timestamp) modulo 65536, hence below 65536,
\* for every value of the receiver's clock, those at or beyond 65536 ms
\* included.
C35_LatencySampleIsModulo65536 ==
    AcceptedGameState =>
        last.args[1] = <<0, (last.args[2] - last.gpkt.timestamp) % U16>>

\* while the receiver's clock is below 65536 ms and not behind the timestamp,
\* the sample is the difference
LatencySampleOfEarlyClock ==
    (/\ AcceptedGameState
     /\ last.args[2] < U16
     /\ last.args[2] >= last.gpkt.timestamp)
    => last.args[1] = <<0, last.args[2] - last.gpkt.timestamp>>

\* the passed flags of the checkpoints of a world
PassedFlags(w) == [k \in DOMAIN w.checkpoints |-> w.checkpoints[k].passed]

\* C34: accepting a valid game-state packet of the peer changes only the
\* remote car and the latency/frame tracker: every checkpoint's passed flag
\* and the local car's next-expected checkpoint index stay as they were; a
\* packet of a peer that passed no checkpoint marks no checkpoint as passed.
C34_AcceptedPacketKeepsCheckpoints ==
    [][AcceptsGameState =>
          /\ PassedFlags(world'["A"]) = PassedFlags(world["A"])
          /\ world'["A"].current_checkpoint = world["A"].current_checkpoint]_vars

\* accepting a packet leaves the cars of the world, the next-expected
\* indices, the race times and the finished flags as they were
AcceptedPacketKeepsCarsAndIndices ==
    [][AcceptsGameState =>
          /\ world'["A"].cars = world["A"].cars
          /\ world'["A"].current_checkpoint = world["A"].current_checkpoint
          /\ world'["A"].race_time = world["A"].race_time
          /\ world'["A"].race_finished = world["A"].race_finished]_vars

\* a step of ble_gap_event for a connect event of status 0 / a disconnect
\* event, and of ble_gatt_char_access for a write to characteristic uuid
ConnectEvent ==
    /\ last'.op = "ble_gap_event"
    /\ last'.report = "BLE_GAP_EVENT_CONNECT"
    /\ last'.result = 0
DisconnectEvent ==
    last'.op = "ble_gap_event" /\ last'.report = "BLE_GAP_EVENT_DISCONNECT"
WriteTo(uuid) ==
    /\ last'.op = "ble_gatt_char_access"
    /\ last'.report = uuid
    /\ last'.args[1] = "WRITE"

\* C36: the lobby follows the BLE link: with the lobby's handler registered
\* as the BLE event callback, a BLE connect event moves the lobby state to
\* CONNECTED, a BLE disconnect event moves it to IDLE, and the arrival of a
\* game-state or input packet write never changes the lobby state or the
\* session's player count.
C36_LobbyFollowsTheLink ==
    [][ble_event_cb = "handle_ble_event" =>
          /\ ConnectEvent => current_state' = "LOBBY_STATE_CONNECTED"
          /\ DisconnectEvent => current_state' = "LOBBY_STATE_IDLE"
          /\ (WriteTo("BLE_GAME_STATE_CHAR_UUID") \/ WriteTo("BLE_INPUT_CHAR_UUID"))
                 => UNCHANGED <<current_state, player_count>>]_vars

\* what the registered handler does with the events ble.c reports: a connect
\* and a disconnect event leave the lobby as it was, and an input packet of
\* the right size resets it to IDLE with one player
LobbyFollowsTheEventNumbers ==
    [][ble_event_cb = "handle_ble_event" =>
          /\ (ConnectEvent \/ DisconnectEvent)
                 => UNCHANGED <<current_state, player_count>>
          /\ (WriteTo("BLE_INPUT_CHAR_UUID") /\ last'.args[2] = 13)
                 => current_state' = "LOBBY_STATE_IDLE" /\ player_count' = 1]_vars

\* the last call was a send of a packet, not of NULL
SentPacket ==
    /\ last.op \in {"ble_send_game_state", "ble_send_input"}
    /\ last.args = <<"packet">>

\* C37: from a successful BLE connect event until the next disconnect event
\* (or ble_deinit), ble_is_connected() stays true and ble_send_game_state /
\* ble_send_input are not rejected with ESP_ERR_INVALID_STATE, whatever
\* ble_start_advertising, ble_stop_advertising, scanning calls or
\* advertising-complete events occur in between; outside such an interval the
\* send functions always return ESP_ERR_INVALID_STATE without notifying.
C37_SendsFollowTheLink ==
    /\ gap.connected => ble_is_connected
    /\ SentPacket =>
           IF gap.connected THEN last.report # "ESP_ERR_INVALID_STATE"
           ELSE last.report = "ESP_ERR_INVALID_STATE" /\ ~last.ok

\* outside such an interval ble_is_connected() is false and a send of a
\* packet returns ESP_ERR_INVALID_STATE without notifying; within it, a send
\* is rejected so exactly when ble_is_connected() is false
SendsFollowTheConnectedState ==
    /\ ~gap.connected => ~ble_is_connected
    /\ SentPacket =>
           /\ last.report = "ESP_ERR_INVALID_STATE" <=> ~ble_is_connected
           /\ last.ok <=> ble_is_connected

\* the tracks that were in the cache when track_loader_deinit was called, and
\* how often the call handed track t to track_unload
DeinitCached == {last.args[i] : i \in DOMAIN last.args}
DeinitUnloads(t) == Cardinality({i \in DOMAIN last.calls : last.calls[i] = t})

\* C38: track_loader_deinit frees all cached tracks: for any number n (0..4)
\* of tracks in the loader's cache, each of the n cached tracks is unloaded
\* exactly once and the cache is empty afterwards.
C38_DeinitUnloadsEveryCachedTrack ==
    last.op = "track_loader_deinit" =>
        /\ \A t \in DeinitCached : DeinitUnloads(t) = 1
        /\ cache_count = 0

\* track_loader_deinit empties the cache, unloads no track twice, and unloads
\* the tracks at the even places of the cache: all of them when the cache held
\* at most one
DeinitUnloadsEverySecondTrack ==
    last.op = "track_loader_deinit" =>
        /\ cache_count = 0
        /\ ~last.fault
        /\ \A i \in DOMAIN last.args :
               DeinitUnloads(last.args[i]) = (IF i % 2 = 1 THEN 1 ELSE 0)

\* a step in which the host handed a write to the callback of the input
\* characteristic / of the game-state characteristic, and the callback
\* returned an error
RejectedInputWrite ==
    /\ last'.op = "gatt_input_access"
    /\ last'.args[1] = "WRITE"
    /\ last'.report # "0"
RejectedGameStateWrite ==
    /\ last'.op = "gatt_game_state_access"
    /\ last'.args[1] = "WRITE"
    /\ last'.report # "0"

\* C39: a GATT write to the game-state or input characteristic whose checksum
\* does not match the CRC-16 of the preceding bytes is rejected with an error
\* and leaves the stored characteristic data (gatt_game_state_data,
\* gatt_input_data) exactly as it was before the write, so a later read or
\* notify never serves the corrupted payload.
C39_RejectedWriteLeavesTheData ==
    [][/\ (last'.op = "gatt_input_access" /\ last'.args[1] = "WRITE"
              /\ last'.ipkt.checksum # InputChecksum(last'.ipkt))
          => /\ last'.report # "0"
             /\ UNCHANGED <<gatt_input_data, gatt_game_state_data>>
       /\ (last'.op = "gatt_game_state_access" /\ last'.args[1] = "WRITE"
              /\ last'.gpkt.checksum # GameStateChecksum(last'.gpkt))
          => /\ last'.report # "0"
             /\ UNCHANGED <<gatt_input_data, gatt_game_state_data>>]_vars

\* a write whose checksum does not match is rejected with an error; a write
\* of a wrong length leaves the stored data as it was, and a write of the
\* right length stores what was written, rejected or not
RejectedWriteOfWrongLengthLeavesTheData ==
    [][/\ (last'.op = "gatt_input_access" /\ last'.args[1] = "WRITE")
          => /\ last'.ipkt.checksum # InputChecksum(last'.ipkt) => last'.report # "0"
             /\ gatt_input_data' =
                    (IF last'.args[2] = 13 THEN last'.ipkt ELSE gatt_input_data)
             /\ UNCHANGED gatt_game_state_data
       /\ ~RejectedGameStateWrite]_vars

\* a task is between the read and the write of a counter of the cache
AtCounter(t) ==
    task[t].pc \in {"load_hits", "load_misses", "store_hits", "store_misses"}

\* C40: every read or write of the track cache's entries and of its hit, miss
\* and eviction counters happens while the cache mutex is held, so that with
\* concurrent callers of track_cache_get, track_cache_add and
\* track_cache_get_stats no counter update is lost: hits + misses always
\* equals the number of completed track_cache_get calls on an initialised
\* cache.
C40_CountersAreUpdatedUnderTheMutex ==
    /\ \A t \in Tasks : AtCounter(t) => cache_mutex = t
    /\ cache_hits + cache_misses = gets

\* the second half alone: no update of a counter is lost
NoCounterUpdateIsLost == cache_hits + cache_misses = gets

\* the counters count no call that did not return, and the entries are read
\* and written by the holder of the mutex only: a task between take and give
\* holds it
CountersNeverExceedTheCalls ==
    /\ cache_hits + cache_misses <= gets
    /\ \A t \in Tasks : task[t].pc = "taken" <=> cache_mutex = t

====
